----------------------------- MODULE LegacyBridge -----------------------------
(***************************************************************************)
(* The legacy SSE bridge, mcp_router/compat/legacy_sse.py, for one         *)
(* endpoint, with the retirement of that endpoint by a reload.             *)
(*                                                                         *)
(*   streams   _stream_session, the SSE response of a session's GET        *)
(*   expiries  _expiry_loop, one per session                               *)
(*   posts     handle_post, run by the task of a request that holds leases *)
(*   setups    establish_upstream, the task a post waits for first         *)
(*   responses process_response, the task a post leaves behind             *)
(*   Reload    drain_and_stop and close_endpoint in apply_configuration    *)
(*                                                                         *)
(* As in EndpointRuntime, an action is the code between two awaits that    *)
(* may suspend and a lock is handed over to its first waiter.  A task that *)
(* is cancelled while it has work to undo gets a label of its own, since   *)
(* others act before it does.                                              *)
(*                                                                         *)
(* The session table, the closed event and the tombstones change in one    *)
(* step each time: a session is open while it is in _sessions, and closed  *)
(* from then on.  A post is sent to a session that is gone or draining     *)
(* without any effect.                                                     *)
(***************************************************************************)
EXTENDS Naturals, Sequences, SequencesExt, FiniteSets

CONSTANTS
    Sessions,    \* local session identifiers, each used once
    Posts,       \* requests, each serving one post after another
    Reload,
    None,        \* Python's None
    Capacity,    \* queue_capacity
    MaxSessions, \* max_sessions
    Environment  \* the optional events this instance includes, see Events

Events == {"expire", "retire", "cancel", "late-cancel", "cancel-again", "cancel-abort"}

ASSUME BridgeBounds == Capacity \in Nat \ {0} /\ MaxSessions \in Nat \ {0}

ASSUME BridgeEvents == Environment \subseteq Events

Stream(s) == <<"stream", s>>
Expiry(s) == <<"expiry", s>>

Tasks == Posts \cup {Reload} \cup ({"stream", "expiry"} \X Sessions)

(* Tasks are told apart, and None is neither a task nor a session. *)
ASSUME BridgeTasks ==
    /\ None \notin Tasks \cup Sessions
    /\ Reload \notin Posts
    /\ ({"stream", "expiry"} \X Sessions) \cap (Posts \cup {Reload}) = {}

VARIABLES
    session,  \* each BridgeSession
    lock,     \* its cleanup_lock
    work,     \* what each post has set up
    pc,       \* the await each task is suspended at
    closing,  \* the session whose cleanup Reload is at
    draining  \* runtime.state is DRAINING

vars == <<session, lock, work, pc, closing, draining>>

-----------------------------------------------------------------------------
(* Labels. *)

CleanupLabels == {"qClose", "cTasks", "cUpstreams", "cAbort"}

StreamLabels == {"none", "unstarted", "lost", "send", "wait", "last", "dropped", "done"}
ExpiryLabels == {"none", "watch", "done"}
PostLabels == {"idle", "setup", "qReject", "qPublish", "errorBody", "ending",
               "handoff", "abort", "abandon", "late", "qLate"}
ReloadLabels == {"watch", "dTasks", "dWait", "sweep", "done"}

Setups == {"none", "connecting", "dying", "entered", "failed", "cancelled"}
Responses == {"none", "ready", "doomed", "never", "reading", "put", "unwinding",
              "closing", "done"}

SetupEnded(p) == work[p].setup \notin {"connecting", "dying"}
ResponseEnded(p) == work[p].response \in {"none", "never", "done"}

NoWork == [on |-> None, setup |-> "none", response |-> "none", ctx |-> "none", held |-> FALSE]

(* The leases are given back.  Nothing remembers work whose post and       *)
(* response are over, but for an upstream that is still open; a session    *)
(* remembers one that it tracks.                                           *)
Over(w) ==
    [NoWork EXCEPT !.ctx = IF w.ctx = "closed" THEN "none" ELSE w.ctx,
                   !.on = IF w.ctx = "tracked" THEN w.on ELSE None]

(* response_entered: the task has begun, and owns upstream and leases. *)
Entered(p) == work[p].response \in {"reading", "put", "unwinding", "closing", "done"}

Goto(t, label) == pc' = [pc EXCEPT ![t] = label]

-----------------------------------------------------------------------------
(* cleanup_lock *)

Free == [owner |-> None, waiters |-> <<>>]

Held(l, t) == [l EXCEPT !.owner = t]

Queued(l, t) == [l EXCEPT !.waiters = Append(@, t)]

Released(l) ==
    IF l.waiters = <<>> THEN Free ELSE [owner |-> Head(l.waiters), waiters |-> Tail(l.waiters)]

(* The queue without t, which has been cancelled while it waited. *)
Leave(queue, t) ==
    IF \E i \in DOMAIN queue : queue[i] = t
    THEN RemoveAt(queue, CHOOSE i \in DOMAIN queue : queue[i] = t)
    ELSE queue

(* t lets go of the lock, or leaves its queue. *)
Without(l, t) ==
    IF l.owner = t THEN Released(l) ELSE [l EXCEPT !.waiters = Leave(@, t)]

(* t runs its critical section, having found the lock free or been handed it. *)
Entering(t, s, want, queued) ==
    \/ pc[t] = want /\ lock[s].owner = None
    \/ pc[t] = queued /\ lock[s].owner = t

-----------------------------------------------------------------------------
(* Cancellation and closing. *)

CancelSetup(x) == IF x = "connecting" THEN "dying" ELSE x

(* A response that has not begun ends without reaching its finally block. *)
CancelResponse(x) ==
    CASE x = "ready"              -> "doomed"
      [] x \in {"reading", "put"} -> "unwinding"
      [] OTHER                    -> x

CancelWork(w) == [w EXCEPT !.setup = CancelSetup(@), !.response = CancelResponse(@)]

(* The work of every post to s but p is cancelled. *)
CancelledOn(s, p) ==
    [q \in Posts |-> IF work[q].on = s /\ q # p THEN CancelWork(work[q]) ELSE work[q]]

(* touch; whether a closed session has expired no longer matters *)
Touched(r) == [r EXCEPT !.expired = FALSE]

(* _mark_terminal, but for the tasks it cancels *)
Terminated(r) ==
    IF r.stage = "closed" THEN r
    ELSE [Touched(r) EXCEPT !.stage = "closed", !.terminal = TRUE, !.queue = 0]

(* The expiry task of s is cancelled, unless it is the one that acts. *)
ExpiryCancelled(t, s) ==
    [pc EXCEPT ![Expiry(s)] =
        IF t # Expiry(s) /\ @ \in {"watch", "qClose"} THEN "done" ELSE @]

(* _close_session_object by t, up to its first await: r is the session and *)
(* w the work as t leaves them.                                            *)
StartClose(t, s, r, w) ==
    IF lock[s].owner \notin {None, t}
    THEN /\ lock' = [lock EXCEPT ![s] = Queued(@, t)]
         /\ pc' = [pc EXCEPT ![t] = "qClose"]
         /\ session' = [session EXCEPT ![s] = r]
         /\ work' = w
    ELSE /\ lock' = [lock EXCEPT ![s] =
                Held(IF t = Expiry(s) THEN @ ELSE Without(@, Expiry(s)), t)]
         /\ pc' = [ExpiryCancelled(t, s) EXCEPT ![t] = "cTasks"]
         /\ session' = [session EXCEPT ![s] = [Touched(r) EXCEPT !.stage = "closed"]]
         /\ work' = [q \in Posts |-> IF w[q].on = s THEN CancelWork(w[q]) ELSE w[q]]

(* The session t is cleaning up. *)
Closing(t) ==
    IF t \in Posts THEN work[t].on ELSE IF t = Reload THEN closing ELSE t[2]

(* Where t goes on after it. *)
AfterClose(t) == IF t \in Posts THEN "idle" ELSE IF t = Reload THEN "sweep" ELSE "done"

(* A post gives its leases back when it ends. *)
LeasesBack(w, t) == IF t \in Posts THEN [w EXCEPT ![t] = Over(@)] ELSE w

(* It has been handed the lock. *)
CloseHanded(t) ==
    LET s == Closing(t) IN
    /\ pc[t] = "qClose"
    /\ lock[s].owner = t
    /\ StartClose(t, s, session[s], work)
    /\ UNCHANGED <<closing, draining>>

(* Mutant: the posts that wait for the lock are waited for, too. *)
WorkAndPostsEnded(s) ==
    \A p \in Posts : work[p].on = s =>
        SetupEnded(p) /\ ResponseEnded(p) /\ pc[p] \notin {"qReject", "qPublish", "qLate"}

(* Every task it cancelled has ended. *)
WorkEnded(s) == \A p \in Posts : work[p].on = s => SetupEnded(p) /\ ResponseEnded(p)

Tracked(s) == {p \in Posts : work[p].on = s /\ work[p].ctx = "tracked"}

Awaited(t) ==
    \/ pc[t] = "cTasks" /\ WorkEnded(Closing(t))
    \/ pc[t] = "cUpstreams"

CloseUpstream(t) ==
    /\ Awaited(t)
    /\ \E p \in Tracked(Closing(t)) : work' = [work EXCEPT ![p].ctx = "closed"]
    /\ Goto(t, "cUpstreams")
    /\ UNCHANGED <<session, lock, closing, draining>>

(* Nothing is left of the session. *)
CloseEnds(t) ==
    LET s == Closing(t) IN
    /\ Awaited(t)
    /\ Tracked(s) = {}
    /\ session' = [session EXCEPT ![s].queue = 0, ![s].owned = FALSE]
    /\ lock' = [lock EXCEPT ![s] = Without(@, t)]
    /\ work' = LeasesBack(work, t)
    /\ Goto(t, AfterClose(t))
    /\ UNCHANGED <<closing, draining>>

(* t has been cancelled while it awaited the tasks: gather still waits for *)
(* them, and then the exception leaves the lock.                           *)
CloseAborted(t) ==
    LET s == Closing(t) IN
    /\ pc[t] = "cAbort"
    /\ WorkEnded(s)
    /\ lock' = [lock EXCEPT ![s] = Without(@, t)]
    /\ work' = LeasesBack(work, t)
    /\ Goto(t, AfterClose(t))
    /\ UNCHANGED <<session, closing, draining>>

CleaningUp(t) == CloseHanded(t) \/ CloseUpstream(t) \/ CloseEnds(t) \/ CloseAborted(t)

-----------------------------------------------------------------------------
(* Sessions and their streams. *)

Active == {s \in Sessions : session[s].stage = "open"}

OpenSession(s) ==
    /\ session[s].stage = "none"
    /\ ~draining
    /\ Cardinality(Active) < MaxSessions
    /\ session' = [session EXCEPT ![s].stage = "open", ![s].owned = TRUE]
    /\ pc' = [pc EXCEPT ![Stream(s)] = "unstarted", ![Expiry(s)] = "watch"]
    /\ UNCHANGED <<lock, work, closing, draining>>

(* The iterator begins with the endpoint event, or the response is dropped *)
(* before it can: then nobody knows the session.                           *)
StreamStart(s) ==
    /\ pc[Stream(s)] = "unstarted"
    /\ pc' \in {[pc EXCEPT ![Stream(s)] = label] : label \in {"send", "lost"}}
    /\ UNCHANGED <<session, lock, work, closing, draining>>

(* The client has consumed what was sent. *)
StreamSent(s) ==
    /\ pc[Stream(s)] = "send"
    /\ Goto(Stream(s), "wait")
    /\ UNCHANGED <<session, lock, work, closing, draining>>

StreamDeliver(s) ==
    /\ pc[Stream(s)] = "wait"
    /\ session[s].queue > 0
    /\ session' = [session EXCEPT ![s] = [Touched(@) EXCEPT !.queue = session[s].queue - 1]]
    /\ Goto(Stream(s), "send")
    /\ UNCHANGED <<lock, work, closing, draining>>

Finished(s) ==
    /\ pc[Stream(s)] = "wait"
    /\ session[s].queue = 0
    /\ session[s].stage = "closed"

(* The terminal error event is the last one. *)
StreamFails(s) ==
    /\ Finished(s)
    /\ session[s].terminal
    /\ Goto(Stream(s), "last")
    /\ UNCHANGED <<session, lock, work, closing, draining>>

(* The client goes away, in whatever the stream is suspended at. *)
Disconnect(s) ==
    /\ pc[Stream(s)] \in {"send", "wait", "last"}
    /\ Goto(Stream(s), "dropped")
    /\ UNCHANGED <<session, lock, work, closing, draining>>

(* Mutant: the stream ends like that of a session that was closed. *)
StreamEndsSilently(s) ==
    /\ Finished(s) \/ pc[Stream(s)] \in {"last", "dropped"}
    /\ StartClose(Stream(s), s, session[s], work)
    /\ UNCHANGED <<closing, draining>>

(* Mutant: a session that is closed already is left to whoever closed it. *)
StreamEndsIfClosed(s) ==
    /\ (Finished(s) /\ ~session[s].terminal) \/ pc[Stream(s)] \in {"last", "dropped"}
    /\ IF session[s].stage = "closed"
       THEN Goto(Stream(s), "done") /\ UNCHANGED <<session, lock, work>>
       ELSE StartClose(Stream(s), s, session[s], work)
    /\ UNCHANGED <<closing, draining>>

(* The finally block of the stream. *)
StreamEnds(s) ==
    /\ \/ Finished(s) /\ ~session[s].terminal
       \/ pc[Stream(s)] \in {"last", "dropped"}
    /\ StartClose(Stream(s), s, session[s], work)
    /\ UNCHANGED <<closing, draining>>

(* A second cancellation reaches the stream inside its cleanup.  Only at   *)
(* the tasks does it wait on.                                              *)
StreamCancelledAgain(s) ==
    LET t == Stream(s) IN
    /\ "cancel-again" \in Environment
    /\ \/ pc[t] = "cTasks" /\ Goto(t, "cAbort") /\ UNCHANGED lock
       \/ /\ pc[t] \in {"qClose", "cUpstreams"}
          /\ lock' = [lock EXCEPT ![s] = Without(@, t)]
          /\ Goto(t, "done")
    /\ UNCHANGED <<session, work, closing, draining>>

-----------------------------------------------------------------------------
(* Expiry. *)

TimePasses(s) ==
    /\ "expire" \in Environment
    /\ session[s].stage = "open"
    /\ ~session[s].expired
    /\ session' = [session EXCEPT ![s].expired = TRUE]
    /\ UNCHANGED <<lock, work, pc, closing, draining>>

(* t finds the session expired. *)
ExpiresFor(t, s, w) ==
    StartClose(t, s,
        [Terminated(session[s]) EXCEPT !.expirations = @ + 1], w)

Expire(s) ==
    /\ pc[Expiry(s)] = "watch"
    /\ session[s].expired
    /\ ExpiresFor(Expiry(s), s, work)
    /\ UNCHANGED <<closing, draining>>

-----------------------------------------------------------------------------
(* Posts. *)

NewPost(s) == [NoWork EXCEPT !.on = s, !.held = TRUE]

(* A client that has received the endpoint event posts to its session. *)
Addresses(p, s) ==
    /\ pc[p] = "idle"
    /\ work[p] = NoWork
    /\ ~draining
    /\ session[s].stage = "open"
    /\ pc[Stream(s)] \notin {"unstarted", "lost"}

PostExpired(p) ==
    \E s \in Sessions :
        /\ Addresses(p, s)
        /\ session[s].expired
        /\ ExpiresFor(p, s, [CancelledOn(s, p) EXCEPT ![p] = NewPost(s)])
        /\ UNCHANGED <<closing, draining>>

PostArrives(p) ==
    \E s \in Sessions :
        /\ Addresses(p, s)
        /\ ~session[s].expired
        /\ session' = [session EXCEPT ![s] = Touched(@)]
        /\ work' = [work EXCEPT ![p] = [NewPost(s) EXCEPT !.setup = "connecting"]]
        /\ Goto(p, "setup")
        /\ UNCHANGED <<lock, closing, draining>>

(* The headers of the upstream's response arrive, perhaps although the     *)
(* setup has been cancelled.                                               *)
SetupEnters(p) ==
    /\ ~SetupEnded(p)
    /\ work' = [work EXCEPT ![p].setup = "entered", ![p].ctx = "entered"]
    /\ UNCHANGED <<session, lock, pc, closing, draining>>

SetupFails(p) ==
    /\ ~SetupEnded(p)
    /\ work' = [work EXCEPT ![p].setup = IF @ = "dying" THEN "cancelled" ELSE "failed"]
    /\ UNCHANGED <<session, lock, pc, closing, draining>>

(* 502, or the cancellation of the setup is raised in the post. *)
PostFails(p) ==
    /\ pc[p] = "setup"
    /\ work[p].setup \in {"failed", "cancelled"}
    /\ work' = [work EXCEPT ![p] = Over(@)]
    /\ Goto(p, "idle")
    /\ UNCHANGED <<session, lock, closing, draining>>

(* It finds the cleanup lock taken, on its way to either critical section. *)
PostWaits(p) ==
    LET s == work[p].on IN
    /\ pc[p] = "setup"
    /\ work[p].setup = "entered"
    /\ lock[s].owner # None
    /\ lock' = [lock EXCEPT ![s] = Queued(@, p)]
    /\ pc' \in {[pc EXCEPT ![p] = label] : label \in {"qReject", "qPublish"}}
    /\ UNCHANGED <<session, work, closing, draining>>

EnterSection(p, queued) ==
    /\ Entering(p, work[p].on, "setup", queued)
    /\ work[p].setup = "entered"

(* Mutant: only the session is looked at, not the runtime. *)
SessionRejection(p) == session[work[p].on].stage = "closed"

(* post_setup_rejection *)
Rejection(p) == session[work[p].on].stage = "closed" \/ draining

(* The setup came too late: its response is closed at once. *)
PostRejected(p) ==
    /\ EnterSection(p, "qReject") \/ EnterSection(p, "qPublish")
    /\ Rejection(p)
    /\ lock' = [lock EXCEPT ![work[p].on] = Without(@, p)]
    /\ work' = [work EXCEPT ![p].ctx = "closed"]
    /\ Goto(p, "ending")
    /\ UNCHANGED <<session, closing, draining>>

(* The upstream answered with an error status: its body is read. *)
PostReadsError(p) ==
    /\ EnterSection(p, "qReject")
    /\ ~Rejection(p)
    /\ lock' = [lock EXCEPT ![work[p].on] = Without(@, p)]
    /\ work' = [work EXCEPT ![p].ctx = "tracked"]
    /\ Goto(p, "errorBody")
    /\ UNCHANGED <<session, closing, draining>>

ErrorRead(p) ==
    /\ pc[p] = "errorBody"
    /\ work' = [work EXCEPT ![p].ctx = "closed"]
    /\ Goto(p, "ending")
    /\ UNCHANGED <<session, lock, closing, draining>>

(* The upstream is closed and the post is answered. *)
PostEnds(p) ==
    /\ pc[p] = "ending"
    /\ work' = [work EXCEPT ![p] = Over(@)]
    /\ Goto(p, "idle")
    /\ UNCHANGED <<session, lock, closing, draining>>

PostPublishes(p) ==
    /\ EnterSection(p, "qPublish")
    /\ ~Rejection(p)
    /\ lock' = [lock EXCEPT ![work[p].on] = Without(@, p)]
    /\ work' = [work EXCEPT ![p].ctx = "tracked", ![p].response = "ready"]
    /\ Goto(p, "handoff")
    /\ UNCHANGED <<session, closing, draining>>

(* Mutant: publication alone transfers the ownership. *)
PostAcceptedUnentered(p) ==
    /\ pc[p] = "handoff"
    /\ work[p].response # "ready"
    /\ Goto(p, "idle")
    /\ UNCHANGED <<session, lock, work, closing, draining>>

(* 202: the response has begun and owns the leases. *)
PostAccepted(p) ==
    /\ pc[p] = "handoff"
    /\ Entered(p)
    /\ work' = [work EXCEPT ![p] = IF @.response = "done" THEN Over(@) ELSE @]
    /\ Goto(p, "idle")
    /\ UNCHANGED <<session, lock, closing, draining>>

(* The response was cancelled before it began. *)
PostKeepsWork(p) ==
    /\ pc[p] = "handoff"
    /\ work[p].response = "never"
    /\ work' = [work EXCEPT ![p].ctx = "closed"]
    /\ Goto(p, "late")
    /\ UNCHANGED <<session, lock, closing, draining>>

LateWaits(p) ==
    LET s == work[p].on IN
    /\ pc[p] = "late"
    /\ lock[s].owner # None
    /\ lock' = [lock EXCEPT ![s] = Queued(@, p)]
    /\ Goto(p, "qLate")
    /\ UNCHANGED <<session, work, closing, draining>>

LateAnswered(p) ==
    LET s == work[p].on IN
    /\ Entering(p, s, "late", "qLate")
    /\ lock' = [lock EXCEPT ![s] = Without(@, p)]
    /\ work' = [work EXCEPT ![p] = Over(@)]
    /\ Goto(p, "idle")
    /\ UNCHANGED <<session, closing, draining>>

-----------------------------------------------------------------------------
(* Cancellation of a post. *)

(* The cancellation goes on to the setup, or to the published response. *)
CancelWaiting(p) ==
    /\ "cancel" \in Environment
    /\ \/ pc[p] = "setup" /\ work[p].setup = "connecting" /\ UNCHANGED pc
       \/ pc[p] = "handoff" /\ Goto(p, "abort")
    /\ work' = [work EXCEPT ![p] = CancelWork(@)]
    /\ UNCHANGED <<session, lock, closing, draining>>

(* Mutant: the cancelled response is trusted to close the upstream. *)
AbortEndsWithoutClosing(p) ==
    /\ pc[p] = "abort"
    /\ ResponseEnded(p)
    /\ Goto(p, "ending")
    /\ UNCHANGED <<session, lock, work, closing, draining>>

(* The response cancelled by the handoff has ended: the upstream is closed. *)
AbortEnds(p) ==
    /\ pc[p] = "abort"
    /\ ResponseEnded(p)
    /\ work' = [work EXCEPT ![p].ctx = "closed"]
    /\ Goto(p, "ending")
    /\ UNCHANGED <<session, lock, closing, draining>>

(* A second cancellation reaches the post there: gather still waits for    *)
(* the response, but nobody closes an upstream that it did not close.      *)
CancelAbort(p) ==
    /\ "cancel-abort" \in Environment
    /\ pc[p] = "abort"
    /\ Goto(p, "abandon")
    /\ UNCHANGED <<session, lock, work, closing, draining>>

AbortAbandoned(p) ==
    /\ pc[p] = "abandon"
    /\ ResponseEnded(p)
    /\ work' = [work EXCEPT ![p] = Over(@)]
    /\ Goto(p, "idle")
    /\ UNCHANGED <<session, lock, closing, draining>>

(* Every other await that a cancellation leaves at once.  A post that      *)
(* reads an error body closes it first.                                    *)
CancelEnding(p) ==
    LET s == work[p].on IN
    /\ "cancel" \in Environment
    /\ pc[p] \in {"ending", "errorBody", "late", "qLate", "qClose", "cUpstreams"}
    /\ lock' = [lock EXCEPT ![s] = Without(@, p)]
    /\ work' = [work EXCEPT ![p] = IF pc[p] = "errorBody" THEN [@ EXCEPT !.ctx = "closed"]
                                  ELSE Over(@)]
    /\ Goto(p, IF pc[p] = "errorBody" THEN "ending" ELSE "idle")
    /\ UNCHANGED <<session, closing, draining>>

CancelCleanup(p) ==
    /\ "cancel" \in Environment
    /\ pc[p] = "cTasks"
    /\ Goto(p, "cAbort")
    /\ UNCHANGED <<session, lock, work, closing, draining>>

(* Cancelled when the setup has succeeded, before the post goes on or      *)
(* while it waits for the lock: the exception takes the response with it.  *)
CancelLate(p) ==
    LET s == work[p].on IN
    /\ "late-cancel" \in Environment
    /\ \/ pc[p] = "setup" /\ work[p].setup = "entered"
       \/ pc[p] \in {"qReject", "qPublish"}
    /\ lock' = [lock EXCEPT ![s] = Without(@, p)]
    /\ work' = [work EXCEPT ![p] = Over(@)]
    /\ Goto(p, "idle")
    /\ UNCHANGED <<session, closing, draining>>

-----------------------------------------------------------------------------
(* Responses: process_response. *)

ResponseStarts(p) ==
    /\ work[p].response = "ready"
    /\ work' = [work EXCEPT ![p].response = "reading"]
    /\ UNCHANGED <<session, lock, pc, closing, draining>>

(* Its cancellation is raised before its first statement. *)
ResponseNeverStarts(p) ==
    /\ work[p].response = "doomed"
    /\ work' = [work EXCEPT ![p].response = "never"]
    /\ UNCHANGED <<session, lock, pc, closing, draining>>

(* _enqueue_event, when the queue has room or gets it in time; a session   *)
(* that is closed meanwhile is not looked at again.                        *)
Enqueue(p) ==
    LET s == work[p].on IN
    /\ \/ work[p].response = "reading" /\ session[s].stage = "open"
       \/ work[p].response = "put"
    /\ session[s].queue < Capacity
    /\ session' = [session EXCEPT ![s] = [Touched(@) EXCEPT !.queue = session[s].queue + 1]]
    /\ work' = [work EXCEPT ![p].response = "reading"]
    /\ UNCHANGED <<lock, pc, closing, draining>>

EnqueueWaits(p) ==
    LET s == work[p].on IN
    /\ work[p].response = "reading"
    /\ session[s].stage = "open"
    /\ session[s].queue >= Capacity
    /\ work' = [work EXCEPT ![p].response = "put"]
    /\ UNCHANGED <<session, lock, pc, closing, draining>>

(* Mutant: the other responses of the session go on. *)
ResponseFailsAlone(p) ==
    LET s == work[p].on IN
    /\ work[p].response \in {"reading", "put"}
    /\ session' = [session EXCEPT ![s] = Terminated(@)]
    /\ work' = [work EXCEPT ![p].response = "closing", ![p].ctx = "closed"]
    /\ pc' = ExpiryCancelled(p, s)
    /\ UNCHANGED <<lock, closing, draining>>

(* The upstream fails while it is read, or the client has not consumed     *)
(* within backpressure_timeout: the session is terminal.                   *)
ResponseFails(p) ==
    LET s == work[p].on IN
    /\ work[p].response \in {"reading", "put"}
    /\ session' = [session EXCEPT ![s] = Terminated(@)]
    /\ work' = [CancelledOn(s, p) EXCEPT ![p].response = "closing", ![p].ctx = "closed"]
    /\ pc' = ExpiryCancelled(p, s)
    /\ UNCHANGED <<lock, closing, draining>>

(* The upstream's stream ends, or the task is cancelled: tracked.close. *)
ResponseEnds(p) ==
    /\ work[p].response \in {"reading", "unwinding"}
    /\ work' = [work EXCEPT ![p].response = "closing", ![p].ctx = "closed"]
    /\ UNCHANGED <<session, lock, pc, closing, draining>>

(* on_complete *)
ResponseCompletes(p) ==
    /\ work[p].response = "closing"
    /\ work' = [work EXCEPT ![p] = IF pc[p] = "idle" THEN Over(@)
                                  ELSE [@ EXCEPT !.response = "done", !.held = FALSE]]
    /\ UNCHANGED <<session, lock, pc, closing, draining>>

-----------------------------------------------------------------------------
(* Retirement of the endpoint. *)

(* Mutant: retirement waits for leases only. *)
BeginRetirementWithoutCancelling ==
    /\ "retire" \in Environment
    /\ pc[Reload] = "watch"
    /\ draining' = TRUE
    /\ Goto(Reload, "dWait")
    /\ UNCHANGED <<session, lock, work, closing>>

(* DRAINING, and cancel_legacy_tasks: every setup, response and expiry,    *)
(* one that is inside a cleanup included.                                  *)
BeginRetirement ==
    /\ "retire" \in Environment
    /\ pc[Reload] = "watch"
    /\ draining' = TRUE
    /\ work' = [p \in Posts |-> CancelWork(work[p])]
    /\ lock' = [s \in Sessions |->
                  IF pc[Expiry(s)] \in {"qClose", "cUpstreams"}
                  THEN Without(lock[s], Expiry(s)) ELSE lock[s]]
    /\ pc' = [t \in Tasks |->
                IF t = Reload THEN "dTasks"
                ELSE IF t \notin {Expiry(s) : s \in Sessions} THEN pc[t]
                ELSE IF pc[t] = "cTasks" THEN "cAbort"
                ELSE IF pc[t] \in {"watch", "qClose", "cUpstreams"} THEN "done"
                ELSE pc[t]]
    /\ UNCHANGED <<session, closing>>

TasksDrained ==
    /\ pc[Reload] = "dTasks"
    /\ \A p \in Posts : SetupEnded(p) /\ ResponseEnded(p)
    /\ \A s \in Sessions : pc[Expiry(s)] \in {"none", "done"}
    /\ Goto(Reload, "dWait")
    /\ UNCHANGED <<session, lock, work, closing, draining>>

LeasesDrained ==
    /\ pc[Reload] = "dWait"
    /\ \A p \in Posts : ~work[p].held
    /\ Goto(Reload, "sweep")
    /\ UNCHANGED <<session, lock, work, closing, draining>>

(* close_endpoint: the sessions it still owns, one after the other. *)
CloseNext ==
    /\ pc[Reload] = "sweep"
    /\ \E s \in Sessions :
        /\ session[s].owned
        /\ closing' = s
        /\ StartClose(Reload, s, session[s], work)
    /\ UNCHANGED draining

Publish ==
    /\ pc[Reload] = "sweep"
    /\ \A s \in Sessions : ~session[s].owned
    /\ Goto(Reload, "done")
    /\ UNCHANGED <<session, lock, work, closing, draining>>

-----------------------------------------------------------------------------
Init ==
    /\ session = [s \in Sessions |->
                    [stage |-> "none", owned |-> FALSE, terminal |-> FALSE,
                     queue |-> 0, expired |-> FALSE, expirations |-> 0]]
    /\ lock = [s \in Sessions |-> Free]
    /\ work = [p \in Posts |-> NoWork]
    /\ pc = [t \in Tasks |->
               IF t \in Posts THEN "idle" ELSE IF t = Reload THEN "watch" ELSE "none"]
    /\ closing = None
    /\ draining = FALSE

StreamStep(s) ==
    StreamStart(s) \/ StreamDeliver(s) \/ StreamFails(s) \/ StreamEnds(s) \/ CleaningUp(Stream(s))

ExpiryStep(s) == Expire(s) \/ CleaningUp(Expiry(s))

PostStep(p) ==
    \/ PostFails(p) \/ PostWaits(p) \/ PostRejected(p) \/ PostReadsError(p) \/ ErrorRead(p)
    \/ PostEnds(p) \/ PostPublishes(p) \/ PostAccepted(p) \/ PostKeepsWork(p)
    \/ LateWaits(p) \/ LateAnswered(p) \/ AbortEnds(p) \/ AbortAbandoned(p)
    \/ CleaningUp(p)

SetupStep(p) == SetupEnters(p) \/ SetupFails(p)

ResponseStep(p) ==
    \/ ResponseStarts(p) \/ ResponseNeverStarts(p) \/ Enqueue(p) \/ EnqueueWaits(p)
    \/ ResponseFails(p) \/ ResponseEnds(p) \/ ResponseCompletes(p)

CancelPost(p) ==
    CancelWaiting(p) \/ CancelAbort(p) \/ CancelEnding(p) \/ CancelCleanup(p) \/ CancelLate(p)

RetirementStep ==
    TasksDrained \/ LeasesDrained \/ CloseNext \/ Publish \/ CleaningUp(Reload)

(* A post to a session that is gone, or to a draining endpoint. *)
PostRefused ==
    /\ draining \/ \E s \in Sessions : session[s].stage = "closed"
    /\ UNCHANGED vars

Next ==
    \/ \E s \in Sessions : \/ OpenSession(s) \/ StreamStep(s) \/ StreamSent(s) \/ Disconnect(s)
                          \/ StreamCancelledAgain(s) \/ TimePasses(s) \/ ExpiryStep(s)
    \/ \E p \in Posts : \/ PostArrives(p) \/ PostExpired(p) \/ PostStep(p) \/ SetupStep(p)
                       \/ ResponseStep(p) \/ CancelPost(p)
    \/ BeginRetirement \/ RetirementStep
    \/ PostRefused

Spec == Init /\ [][Next]_vars

-----------------------------------------------------------------------------
(* Properties. *)

LabelsOf(t) ==
    IF t \in Posts THEN PostLabels \cup CleanupLabels
    ELSE IF t = Reload THEN ReloadLabels \cup CleanupLabels
    ELSE IF t[1] = "stream" THEN StreamLabels \cup CleanupLabels
    ELSE ExpiryLabels \cup CleanupLabels

TypeOK ==
    /\ session \in [Sessions -> [stage : {"none", "open", "closed"}, owned : BOOLEAN,
                                 terminal : BOOLEAN, queue : 0 .. Capacity,
                                 expired : BOOLEAN, expirations : Nat]]
    /\ lock \in [Sessions -> [owner : Tasks \cup {None}, waiters : Seq(Tasks)]]
    /\ work \in [Posts -> [on : Sessions \cup {None}, setup : Setups, response : Responses,
                           ctx : {"none", "entered", "tracked", "closed"}, held : BOOLEAN]]
    /\ DOMAIN pc = Tasks /\ \A t \in Tasks : pc[t] \in LabelsOf(t)
    /\ closing \in Sessions \cup {None}
    /\ draining \in BOOLEAN

(* An upstream response is open only while its request's leases are held,  *)
(* by the post or by the response task it was handed to: closing,          *)
(* draining, late setups and cancellations on either side of the handoff   *)
(* leave none behind.                                                      *)
OpenUnderLease == \A p \in Posts : work[p].ctx \in {"entered", "tracked"} => work[p].held

(* The leases of a post are held by someone who will release them: the     *)
(* post itself, or a response task that has begun and not yet completed.   *)
LeasesHaveOwners ==
    \A p \in Posts : work[p].held =>
        pc[p] # "idle" \/ (Entered(p) /\ ~ResponseEnded(p))

(* Once retirement has cancelled the bridge's tasks no setup or response   *)
(* is alive again, and once it publishes, nothing of the bridge is left.   *)
RetiredIsQuiet ==
    /\ pc[Reload] \in {"dWait", "sweep", "done"} \cup CleanupLabels =>
        \A p \in Posts : SetupEnded(p) /\ ResponseEnded(p)
    /\ pc[Reload] = "done" =>
        /\ \A s \in Sessions : ~session[s].owned /\ session[s].queue = 0
        /\ \A p \in Posts : ~work[p].held /\ work[p].ctx \in {"none", "closed"}

(* A session ends once.  Until retirement takes it over, one that can be   *)
(* addressed is watched by its expiry task; it is counted as expired once, *)
(* by whichever of that task and a post finds it so first, and its client  *)
(* is then told; and nothing is queued behind that terminal event by the   *)
(* responses that were about to enqueue.                                   *)
SessionsEndOnce ==
    \A s \in Sessions :
        /\ session[s].stage = "open" /\ ~draining => pc[Expiry(s)] = "watch"
        /\ session[s].expirations <= 1
        /\ session[s].expirations = 1 => session[s].terminal
        /\ session[s].terminal => session[s].queue = 0

-----------------------------------------------------------------------------
(* Fairness.  Tasks run when they are ready, and awaits with a timeout     *)
(* end: the setup, the error body and a full queue.  Nothing is assumed of *)
(* clients or of an upstream's event stream.                               *)
BridgeFairness ==
    /\ \A s \in Sessions : WF_vars(StreamStep(s)) /\ WF_vars(ExpiryStep(s))
    /\ \A p \in Posts :
        /\ WF_vars(PostStep(p))
        /\ WF_vars(SetupStep(p))
        /\ WF_vars(work[p].response # "reading" /\ ResponseStep(p))
    /\ WF_vars(RetirementStep)

FairSpec == Spec /\ BridgeFairness

(* Every post is answered: setups, cleanups that hold the lock and the     *)
(* handoff do not wait for each other, and not for the client.             *)
PostsAreAnswered == \A p \in Posts : pc[p] # "idle" ~> pc[p] = "idle"

(* Retirement completes although streams and their upstreams are open. *)
RetirementCompletes == draining ~> pc[Reload] = "done"

(* Clients consume what they are sent, or go away: the condition of the    *)
(* properties below, since a client that does neither holds up its stream. *)
ClientsConsume == \A s \in Sessions : WF_vars(StreamSent(s) \/ Disconnect(s))

(* When clients consume, the stream of a session that failed does not end, *)
(* and does not go on waiting for events, before its client has been sent  *)
(* the terminal event, unless the client is gone.                          *)
FailureIsTold ==
    ClientsConsume => \A s \in Sessions :
        session[s].terminal /\ pc[Stream(s)] \in {"unstarted", "send", "wait"}
            ~> pc[Stream(s)] \in {"last", "dropped", "lost"}

(* When clients consume, what belongs to a closed session is released in   *)
(* the end.                                                                *)
ClosedIsReleased ==
    ClientsConsume => \A s \in Sessions : session[s].stage = "closed" ~> ~session[s].owned
=============================================================================
