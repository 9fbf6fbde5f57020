-------------------------- MODULE LegacyBridgeProofs --------------------------
(***************************************************************************)
(* Theorems about LegacyBridge, for any sessions, posts and bounds.        *)
(*                                                                         *)
(* The invariant has five parts, one for each kind of thing that others    *)
(* may change while a task is suspended: the work of one post, the         *)
(* sessions, the upstreams they track, the cleanups under way, and the     *)
(* retirement.                                                             *)
(***************************************************************************)
EXTENDS LegacyBridge, SequenceTheorems, TLAPS

Sections == {"qReject", "qPublish"}
Handoffs == {"handoff", "abort", "abandon"}
UnderLock == {"cTasks", "cUpstreams", "cAbort"}

(* What a post that is suspended at label finds in its work, whatever has  *)
(* been cancelled meanwhile.                                               *)
Sound(w, label) ==
    /\ label = "idle" /\ ~w.held =>
           /\ w.setup = "none" /\ w.response = "none"
           /\ w.ctx = "entered" => "late-cancel" \in Environment
           /\ w.ctx = "tracked" => "cancel-abort" \in Environment
    /\ label = "idle" /\ w.held =>
           w.setup = "entered" /\ w.response \in {"reading", "put", "unwinding", "closing"}
    /\ label = "setup" =>
           w.held /\ w.response = "none"
           /\ w.setup # "none" /\ w.ctx = (IF w.setup = "entered" THEN "entered" ELSE "none")
    /\ label \in Sections =>
           w.held /\ w.setup = "entered" /\ w.response = "none" /\ w.ctx = "entered"
    /\ label = "errorBody" =>
           w.held /\ w.setup = "entered" /\ w.response = "none" /\ w.ctx \in {"tracked", "closed"}
    /\ label \in Handoffs =>
           w.setup = "entered" /\ w.response # "none" /\ w.ctx \in {"tracked", "closed"}
    /\ label \in {"late", "qLate"} =>
           w.setup = "entered" /\ w.response = "never" /\ w.ctx = "closed"
    /\ label = "ending" =>
           w.setup = "entered" /\ w.response \in {"none", "never", "done"} /\ w.ctx = "closed"
    /\ label \in CleanupLabels =>
           w.held /\ w.setup = "none" /\ w.response = "none" /\ w.ctx = "none"
    /\ label # "idle" => (w.held <=> w.response # "done")
    /\ w.response \in {"closing", "done"} => w.ctx = "closed"
    /\ label = "abandon" => "cancel-abort" \in Environment
    /\ w.ctx = "tracked" /\ label # "idle" => w.held
    /\ w.held => w.on \in Sessions
    /\ w.response # "none" => w.on \in Sessions

PostsInv == \A p \in Posts : Sound(work[p], pc[p])

(* A session that is closed stays so, and only a closed one is cleaned up. *)
StageInv ==
    \A s \in Sessions :
        /\ lock[s].owner # None => session[s].stage = "closed"
        /\ session[s].expired => session[s].stage = "open"
        /\ session[s].terminal => session[s].stage = "closed"
        /\ session[s].expirations # 0 => session[s].stage = "closed"
        /\ session[s].stage = "open" => session[s].owned
        /\ session[s].stage = "none" => \A p \in Posts : work[p].on # s

(* Nothing is queued any more once a session has failed or been left. *)
QuietInv ==
    \A s \in Sessions :
        /\ session[s].terminal => \A p \in Posts : work[p].on = s => work[p].response # "put"
        /\ ~session[s].owned => WorkEnded(s) /\ session[s].queue = 0

(* A session is not forgotten before the upstreams it tracks are closed. *)
TrackedInv ==
    \A p \in Posts : work[p].ctx = "tracked" => work[p].on \in Sessions /\ session[work[p].on].owned

(* Every task is in a cleanup of a session that exists. *)
CleanupInv ==
    /\ pc[Reload] \in CleanupLabels => closing \in Sessions
    /\ \A t \in Tasks :
        /\ pc[t] \in UnderLock => session[Closing(t)].stage = "closed"
        /\ pc[t] = "cUpstreams" => WorkEnded(Closing(t))

PastTasks == {"dWait", "sweep", "done"} \cup CleanupLabels
PastLeases == {"sweep", "done"} \cup CleanupLabels

RetireInv ==
    /\ draining <=> pc[Reload] # "watch"
    /\ pc[Reload] \in PastTasks => \A p \in Posts : SetupEnded(p) /\ ResponseEnded(p)
    /\ pc[Reload] \in PastLeases => \A p \in Posts : ~work[p].held
    /\ pc[Reload] = "done" => \A s \in Sessions : ~session[s].owned

BridgeInv ==
    /\ TypeOK
    /\ PostsInv
    /\ StageInv
    /\ QuietInv
    /\ TrackedInv
    /\ CleanupInv
    /\ RetireInv
    /\ SessionsEndOnce

-----------------------------------------------------------------------------
(* The tasks and their labels. *)

LEMMA Kinds ==
    /\ \A p \in Posts :
           /\ p \in Tasks /\ p # Reload
           /\ LabelsOf(p) = PostLabels \cup CleanupLabels
    /\ Reload \in Tasks /\ Reload \notin Posts
    /\ LabelsOf(Reload) = ReloadLabels \cup CleanupLabels
    /\ \A s \in Sessions :
           /\ Stream(s) \in Tasks /\ Stream(s) \notin Posts /\ Stream(s) # Reload
           /\ Expiry(s) \in Tasks /\ Expiry(s) \notin Posts /\ Expiry(s) # Reload
           /\ LabelsOf(Stream(s)) = StreamLabels \cup CleanupLabels
           /\ LabelsOf(Expiry(s)) = ExpiryLabels \cup CleanupLabels
           /\ \A x \in Sessions : Stream(s) # Expiry(x)
           /\ \A x \in Sessions : Expiry(s) = Expiry(x) => s = x
    /\ \A t \in Tasks : t \in Posts \/ t = Reload \/ \E s \in Sessions : t = Stream(s) \/ t = Expiry(s)
    /\ None \notin Tasks /\ None \notin Sessions
<1>1. \A p \in Posts : p \in Tasks /\ p # Reload /\ LabelsOf(p) = PostLabels \cup CleanupLabels
  BY BridgeTasks DEF Tasks, LabelsOf
<1>2. /\ Reload \in Tasks /\ Reload \notin Posts
      /\ LabelsOf(Reload) = ReloadLabels \cup CleanupLabels
      /\ None \notin Tasks /\ None \notin Sessions
  BY BridgeTasks DEF Tasks, LabelsOf
<1>3. ASSUME NEW s \in Sessions
      PROVE  /\ Stream(s) \in Tasks /\ Stream(s) \notin Posts /\ Stream(s) # Reload
             /\ Expiry(s) \in Tasks /\ Expiry(s) \notin Posts /\ Expiry(s) # Reload
             /\ LabelsOf(Stream(s)) = StreamLabels \cup CleanupLabels
             /\ LabelsOf(Expiry(s)) = ExpiryLabels \cup CleanupLabels
             /\ \A x \in Sessions : Stream(s) # Expiry(x)
             /\ \A x \in Sessions : Expiry(s) = Expiry(x) => s = x
  <2>1. /\ Stream(s) \in {"stream", "expiry"} \X Sessions
        /\ Expiry(s) \in {"stream", "expiry"} \X Sessions
    BY DEF Stream, Expiry
  <2>2. /\ Stream(s) \in Tasks /\ Stream(s) \notin Posts /\ Stream(s) # Reload
        /\ Expiry(s) \in Tasks /\ Expiry(s) \notin Posts /\ Expiry(s) # Reload
    BY <2>1, BridgeTasks DEF Tasks
  <2>3. Stream(s)[1] = "stream" /\ Expiry(s)[1] = "expiry"
    BY DEF Stream, Expiry
  <2>4. \A x \in Sessions : Stream(s) # Expiry(x) /\ (Expiry(s) = Expiry(x) => s = x)
    BY DEF Stream, Expiry
  <2> QED
    BY <2>2, <2>3, <2>4 DEF LabelsOf
<1>4. ASSUME NEW t \in Tasks
      PROVE  t \in Posts \/ t = Reload \/ \E s \in Sessions : t = Stream(s) \/ t = Expiry(s)
  BY DEF Tasks, Stream, Expiry
<1> QED
  BY <1>1, <1>2, <1>3, <1>4

LEMMA Closings ==
    /\ \A p \in Posts : Closing(p) = work[p].on /\ Closing(p)' = work'[p].on
    /\ Closing(Reload) = closing /\ Closing(Reload)' = closing'
    /\ \A s \in Sessions :
           /\ Closing(Stream(s)) = s /\ Closing(Stream(s))' = s
           /\ Closing(Expiry(s)) = s /\ Closing(Expiry(s))' = s
<1>1. \A s \in Sessions : Stream(s)[2] = s /\ Expiry(s)[2] = s
  BY DEF Stream, Expiry
<1> QED
  BY <1>1, Kinds DEF Closing

-----------------------------------------------------------------------------
(* Types. *)

SessionRecord == [stage : {"none", "open", "closed"}, owned : BOOLEAN, terminal : BOOLEAN,
                  queue : 0 .. Capacity, expired : BOOLEAN, expirations : Nat]
LockRecord == [owner : Tasks \cup {None}, waiters : Seq(Tasks)]
WorkRecord == [on : Sessions \cup {None}, setup : Setups, response : Responses,
               ctx : {"none", "entered", "tracked", "closed"}, held : BOOLEAN]

(* A queue stays a queue of tasks when a cancelled waiter leaves it. *)
LEMMA LeaveType ==
    ASSUME NEW S, NEW queue \in Seq(S), NEW t
    PROVE  Leave(queue, t) \in Seq(S)
<1>1. CASE \E i \in DOMAIN queue : queue[i] = t
  <2> DEFINE i == CHOOSE j \in DOMAIN queue : queue[j] = t
  <2>1. i \in 1 .. Len(queue)
    BY <1>1
  <2>2. Leave(queue, t) = SubSeq(queue, 1, i - 1) \o SubSeq(queue, i + 1, Len(queue))
    BY <1>1 DEF Leave, RemoveAt
  <2> HIDE DEF i
  <2>3. SubSeq(queue, 1, i - 1) \in Seq(S) /\ SubSeq(queue, i + 1, Len(queue)) \in Seq(S)
    BY <2>1, SubSeqProperties
  <2> QED
    BY <2>2, <2>3, ConcatProperties
<1>2. CASE ~\E i \in DOMAIN queue : queue[i] = t
  BY <1>2 DEF Leave
<1> QED
  BY <1>1, <1>2

(* A free lock is not taken by one who lets go of it or queues for it. *)
LEMMA LockTypes ==
    ASSUME NEW l \in LockRecord, NEW t \in Tasks
    PROVE  /\ Without(l, t) \in LockRecord
           /\ Queued(l, t) \in LockRecord /\ Queued(l, t).owner = l.owner
           /\ Held(l, t) \in LockRecord /\ Held(l, t).owner = t
           /\ Without(l, t).owner # None => l.owner # None
<1>1. Released(l) \in LockRecord
  BY HeadTailProperties DEF Released, LockRecord, Free
<1>2. Leave(l.waiters, t) \in Seq(Tasks) /\ Append(l.waiters, t) \in Seq(Tasks)
  BY LeaveType, AppendProperties DEF LockRecord
<1> QED
  BY <1>1, <1>2, Kinds DEF Without, Queued, Held, LockRecord

LEMMA WorkTypes ==
    /\ NoWork \in WorkRecord
    /\ \A s \in Sessions : NewPost(s) \in WorkRecord
    /\ \A w \in WorkRecord : Over(w) \in WorkRecord /\ CancelWork(w) \in WorkRecord
<1>1. NoWork \in WorkRecord /\ \A s \in Sessions : NewPost(s) \in WorkRecord
  BY DEF NoWork, NewPost, WorkRecord, Setups, Responses
<1>2. ASSUME NEW w \in WorkRecord
      PROVE  Over(w) \in WorkRecord /\ CancelWork(w) \in WorkRecord
  <2>1. Over(w) \in WorkRecord
    BY DEF NoWork, Over, WorkRecord, Setups, Responses
  <2>2. CancelSetup(w.setup) \in Setups /\ CancelResponse(w.response) \in Responses
    BY DEF CancelSetup, CancelResponse, WorkRecord, Setups, Responses
  <2> QED
    BY <2>1, <2>2 DEF CancelWork, WorkRecord
<1> QED
  BY <1>1, <1>2

Alive(w) == w.setup \in {"connecting", "dying"} \/ w.response \notin {"none", "never", "done"}

(* What the work of a post is once it is over, and once it is cancelled. *)
LEMMA WorkChanges ==
    ASSUME NEW w \in WorkRecord
    PROVE  /\ ~Over(w).held /\ Over(w).on = (IF w.ctx = "tracked" THEN w.on ELSE None)
           /\ Over(w).setup = "none" /\ Over(w).response = "none"
           /\ Over(w).ctx = IF w.ctx = "closed" THEN "none" ELSE w.ctx
           /\ CancelWork(w).on = w.on /\ CancelWork(w).ctx = w.ctx
           /\ CancelWork(w).held = w.held
           /\ CancelWork(w).setup = CancelSetup(w.setup)
           /\ CancelWork(w).response = CancelResponse(w.response)
           /\ CancelWork(w).response # "put"
           /\ Alive(CancelWork(w)) => Alive(w)
<1>1. /\ ~Over(w).held /\ Over(w).on = (IF w.ctx = "tracked" THEN w.on ELSE None)
      /\ Over(w).setup = "none" /\ Over(w).response = "none"
      /\ Over(w).ctx = IF w.ctx = "closed" THEN "none" ELSE w.ctx
  BY DEF Over, NoWork
<1>2. /\ CancelWork(w).on = w.on /\ CancelWork(w).ctx = w.ctx
      /\ CancelWork(w).held = w.held
      /\ CancelWork(w).setup = CancelSetup(w.setup)
      /\ CancelWork(w).response = CancelResponse(w.response)
  BY DEF CancelWork, WorkRecord
<1>3. CancelResponse(w.response) # "put"
  BY DEF CancelResponse, WorkRecord, Responses
<1>4. Alive(CancelWork(w)) => Alive(w)
  BY <1>2 DEF Alive, CancelSetup, CancelResponse, WorkRecord, Responses, Setups
<1> QED
  BY <1>1, <1>2, <1>3, <1>4

LEMMA Alives ==
    /\ \A s : WorkEnded(s) <=> \A p \in Posts : work[p].on = s => ~Alive(work[p])
    /\ \A p : SetupEnded(p) /\ ResponseEnded(p) <=> ~Alive(work[p])
BY DEF WorkEnded, SetupEnded, ResponseEnded, Alive

(* Whatever is cancelled, its post finds it as it must. *)
LEMMA SoundWhenCancelled ==
    ASSUME NEW w \in WorkRecord, NEW label, Sound(w, label)
    PROVE  Sound(CancelWork(w), label)
<1> DEFINE c == CancelWork(w)
<1>1. /\ c.on = w.on /\ c.ctx = w.ctx /\ c.held = w.held
      /\ c.setup = CancelSetup(w.setup) /\ c.response = CancelResponse(w.response)
  BY WorkChanges
<1> HIDE DEF c
<1>2. /\ w.setup = "entered" => c.setup = "entered"
      /\ w.setup = "none" => c.setup = "none"
      /\ c.setup = "entered" <=> w.setup = "entered"
      /\ c.setup = "none" <=> w.setup = "none"
  BY <1>1 DEF CancelSetup
<1>3. /\ w.response \in {"none", "never", "closing", "done"} => c.response = w.response
      /\ c.response \in {"none", "never", "closing", "done"} => c.response = w.response
      /\ w.response \in {"reading", "put", "unwinding"} => c.response = "unwinding"
  BY <1>1 DEF CancelResponse, WorkRecord, Responses
<1> QED
  BY <1>1, <1>2, <1>3 DEF Sound, Sections, Handoffs, c

LEMMA SessionChanges ==
    ASSUME NEW r \in SessionRecord
    PROVE  /\ Touched(r) \in SessionRecord /\ ~Touched(r).expired
           /\ Touched(r).stage = r.stage /\ Touched(r).owned = r.owned
           /\ Touched(r).terminal = r.terminal /\ Touched(r).queue = r.queue
           /\ Touched(r).expirations = r.expirations
           /\ Terminated(r) \in SessionRecord
           /\ Terminated(r).stage = "closed" /\ Terminated(r).owned = r.owned
           /\ Terminated(r).expirations = r.expirations
           /\ r.stage = "closed" => Terminated(r) = r
           /\ r.stage # "closed" =>
                  /\ Terminated(r).terminal /\ Terminated(r).queue = 0
                  /\ ~Terminated(r).expired
<1>1. /\ Touched(r) \in SessionRecord /\ ~Touched(r).expired
      /\ Touched(r).stage = r.stage /\ Touched(r).owned = r.owned
      /\ Touched(r).terminal = r.terminal /\ Touched(r).queue = r.queue
      /\ Touched(r).expirations = r.expirations
  BY DEF Touched, SessionRecord
<1>2. CASE r.stage = "closed"
  BY <1>1, <1>2 DEF Terminated
<1>3. CASE r.stage # "closed"
  <2>1. Terminated(r) = [Touched(r) EXCEPT !.stage = "closed", !.terminal = TRUE, !.queue = 0]
    BY <1>3 DEF Terminated
  <2>2. 0 \in 0 .. Capacity
    BY BridgeBounds
  <2> QED
    BY <1>1, <1>3, <2>1, <2>2 DEF SessionRecord
<1> QED
  BY <1>1, <1>2, <1>3

LEMMA TypeIs ==
    TypeOK <=> /\ session \in [Sessions -> SessionRecord]
               /\ lock \in [Sessions -> LockRecord]
               /\ work \in [Posts -> WorkRecord]
               /\ DOMAIN pc = Tasks /\ \A t \in Tasks : pc[t] \in LabelsOf(t)
               /\ closing \in Sessions \cup {None}
               /\ draining \in BOOLEAN
BY DEF TypeOK, SessionRecord, LockRecord, WorkRecord

-----------------------------------------------------------------------------
(* Steps that leave every session in its stage. *)

Moves(t, label) ==
    /\ DOMAIN pc' = Tasks
    /\ pc'[t] = label
    /\ \A u \in Tasks : u # t => pc'[u] = pc[u]

LEMMA GotoMoves ==
    ASSUME TypeOK, NEW t \in Tasks, NEW label
    PROVE  /\ Goto(t, label) => Moves(t, label)
           /\ UNCHANGED pc => Moves(t, pc[t])
BY TypeIs DEF Goto, Moves

(* What a step may do to the work of a post: nobody but a post on an open  *)
(* session of an endpoint in service begins anything.                      *)
Continues(v, w) ==
    /\ \/ w.on = v.on
       \/ w.on = None
       \/ w.on \in Sessions /\ session[w.on].stage = "open"
    /\ Alive(w) => \/ Alive(v) /\ w.on = v.on
                   \/ w.on \in Sessions /\ session[w.on].stage = "open" /\ ~draining
    /\ w.response = "put" => \/ v.response = "put" /\ w.on = v.on
                             \/ w.on \in Sessions /\ session[w.on].stage = "open"
    /\ w.held => v.held \/ ~draining
    /\ w.ctx = "tracked" => \/ v.ctx = "tracked" /\ w.on = v.on
                            \/ w.on \in Sessions /\ session[w.on].stage = "open"

LEMMA CancelContinues ==
    ASSUME NEW w \in WorkRecord
    PROVE  Continues(w, w) /\ Continues(w, CancelWork(w))
BY WorkChanges DEF Continues

LEMMA OverContinues ==
    ASSUME NEW w \in WorkRecord
    PROVE  Continues(w, Over(w))
BY WorkChanges DEF Continues, Alive

PostsGoOn == \A q \in Posts : Sound(work'[q], pc'[q]) /\ Continues(work[q], work'[q])

SessionsStay ==
    \A s \in Sessions :
        /\ session'[s].stage = session[s].stage /\ session'[s].owned = session[s].owned
        /\ session'[s].terminal = session[s].terminal
        /\ session'[s].expirations = session[s].expirations
        /\ session'[s].expired => session[s].expired \/ session[s].stage = "open"
        /\ \/ session'[s].queue = 0
           \/ session'[s].queue = session[s].queue
           \/ session[s].owned /\ ~session[s].terminal

LocksStayFree == \A s \in Sessions : lock'[s].owner # None => lock[s].owner # None

LEMMA TrackedStay ==
    ASSUME BridgeInv, PostsGoOn,
           \A s \in Sessions : session[s].owned =>
               session'[s].owned \/ (session[s].stage # "open" /\ Tracked(s) = {})
    PROVE  TrackedInv'
<1> SUFFICES ASSUME NEW p \in Posts, work'[p].ctx = "tracked"
             PROVE  work'[p].on \in Sessions /\ session'[work'[p].on].owned
  BY DEF TrackedInv
<1>1. CASE work[p].ctx = "tracked" /\ work'[p].on = work[p].on
  <2>1. work[p].on \in Sessions /\ session[work[p].on].owned
    BY <1>1 DEF BridgeInv, TrackedInv
  <2>2. p \in Tracked(work[p].on)
    BY <1>1 DEF Tracked
  <2> QED
    BY <1>1, <2>1, <2>2
<1>2. CASE work'[p].on \in Sessions /\ session[work'[p].on].stage = "open"
  BY <1>2 DEF BridgeInv, StageInv
<1> QED
  BY <1>1, <1>2 DEF PostsGoOn, Continues

LEMMA StagesStay ==
    ASSUME BridgeInv, PostsGoOn, SessionsStay, LocksStayFree
    PROVE  StageInv' /\ QuietInv' /\ TrackedInv'
<1>1. StageInv'
  <2>1. None \notin Sessions
    BY Kinds
  <2>2. ASSUME NEW s \in Sessions, session'[s].stage = "none", NEW q \in Posts
        PROVE  work'[q].on # s
    BY <2>1, <2>2 DEF BridgeInv, StageInv, PostsGoOn, Continues, SessionsStay
  <2> QED
    BY <2>2 DEF BridgeInv, StageInv, SessionsStay, LocksStayFree
<1>2. ASSUME NEW s \in Sessions, session'[s].terminal, NEW q \in Posts, work'[q].on = s
      PROVE  work'[q].response # "put"
  BY <1>2 DEF BridgeInv, StageInv, QuietInv, PostsGoOn, Continues, SessionsStay
<1>3. ASSUME NEW s \in Sessions, ~session'[s].owned, NEW q \in Posts, work'[q].on = s
      PROVE  ~Alive(work'[q])
  BY <1>3, Alives DEF BridgeInv, StageInv, QuietInv, PostsGoOn, Continues, SessionsStay
<1>4. \A s \in Sessions : ~session'[s].owned => session'[s].queue = 0
  BY DEF BridgeInv, QuietInv, SessionsStay
<1>5. \A s : WorkEnded(s)' <=> \A q \in Posts : work'[q].on = s => ~Alive(work'[q])
  BY DEF WorkEnded, SetupEnded, ResponseEnded, Alive
<1>6. TrackedInv'
  BY TrackedStay DEF SessionsStay
<1> QED
  BY <1>1, <1>2, <1>3, <1>4, <1>5, <1>6 DEF QuietInv

LEMMA ClosingExists ==
    ASSUME BridgeInv, NEW u \in Tasks, pc[u] \in CleanupLabels
    PROVE  Closing(u) \in Sessions
<1>1. CASE u \in Posts
  BY <1>1, Closings DEF BridgeInv, PostsInv, Sound
<1>2. CASE u = Reload
  BY <1>2, Closings DEF BridgeInv, CleanupInv
<1>3. CASE \E s \in Sessions : u = Stream(s) \/ u = Expiry(s)
  BY <1>3, Closings
<1> QED
  BY <1>1, <1>2, <1>3, Kinds

ClosedStay == \A s \in Sessions : session[s].stage = "closed" => session'[s].stage = "closed"

(* Whatever t does, the cleanups of the others go on. *)
LEMMA CleanupsStay ==
    ASSUME BridgeInv, PostsGoOn, ClosedStay, NEW t \in Tasks,
           \A u \in Tasks : u # t => pc'[u] \in {pc[u], "done"},
           \A q \in Posts : q # t => work'[q].on = work[q].on,
           t # Reload => closing' = closing,
           t = Reload /\ pc'[t] \in CleanupLabels => closing' \in Sessions,
           pc'[t] \in UnderLock => session'[Closing(t)'].stage = "closed",
           pc'[t] = "cUpstreams" => WorkEnded(Closing(t))'
    PROVE  CleanupInv'
<1>1. pc'[Reload] \in CleanupLabels => closing' \in Sessions
  BY Kinds DEF BridgeInv, CleanupInv, CleanupLabels
<1>2. ASSUME NEW u \in Tasks, u # t, pc'[u] \in UnderLock
      PROVE  /\ pc[u] = pc'[u] /\ Closing(u)' = Closing(u)
             /\ session'[Closing(u)'].stage = "closed"
             /\ pc'[u] = "cUpstreams" => WorkEnded(Closing(u))'
  <2>1. pc[u] = pc'[u]
    BY <1>2 DEF UnderLock
  <2>2. Closing(u)' = Closing(u)
    BY <1>2 DEF Closing
  <2>3. Closing(u) \in Sessions
    BY <1>2, <2>1, ClosingExists DEF UnderLock, CleanupLabels
  <2>4. /\ session[Closing(u)].stage = "closed"
        /\ pc[u] = "cUpstreams" => WorkEnded(Closing(u))
    BY <1>2, <2>1 DEF BridgeInv, CleanupInv
  <2>5. pc[u] = "cUpstreams" => WorkEnded(Closing(u))'
    <3> DEFINE s == Closing(u)
    <3>1. \A q \in Posts : pc[u] = "cUpstreams" /\ work[q].on = s => ~Alive(work[q])
      BY <2>4, Alives
    <3>2. \A q \in Posts : pc[u] = "cUpstreams" /\ work'[q].on = s => ~Alive(work'[q])
      BY <2>4, <3>1 DEF PostsGoOn, Continues
    <3> QED
      BY <2>2, <3>2 DEF WorkEnded, SetupEnded, ResponseEnded, Alive
  <2> QED
    BY <2>1, <2>2, <2>3, <2>4, <2>5 DEF ClosedStay
<1> QED
  BY <1>1, <1>2 DEF CleanupInv, UnderLock

(* The retirement goes on beside the others, or cleans up. *)
LEMMA RetirementStays ==
    ASSUME BridgeInv, PostsGoOn, UNCHANGED draining,
           \/ pc'[Reload] = pc[Reload]
           \/ {pc[Reload], pc'[Reload]} \subseteq {"sweep"} \cup CleanupLabels,
           \A s \in Sessions : session'[s].owned => session[s].owned \/ ~draining
    PROVE  RetireInv'
<1>1. ~draining => pc'[Reload] = "watch"
  BY DEF BridgeInv, RetireInv, CleanupLabels
<1>2. draining => /\ \A q \in Posts : Alive(work'[q]) => Alive(work[q])
                  /\ \A q \in Posts : work'[q].held => work[q].held
                  /\ \A s \in Sessions : session'[s].owned => session[s].owned
  BY DEF PostsGoOn, Continues
<1>3. \A q \in Posts : (SetupEnded(q) /\ ResponseEnded(q))' <=> ~Alive(work'[q])
  BY DEF SetupEnded, ResponseEnded, Alive
<1>4. /\ pc'[Reload] \in PastTasks => pc[Reload] \in PastTasks
      /\ pc'[Reload] \in PastLeases => pc[Reload] \in PastLeases
      /\ pc'[Reload] = "done" => pc[Reload] = "done"
      /\ pc'[Reload] = "watch" <=> pc[Reload] = "watch"
      /\ "watch" \notin PastTasks /\ "watch" \notin PastLeases
  BY DEF PastTasks, PastLeases, CleanupLabels
<1> QED
  BY <1>1, <1>2, <1>3, <1>4, Alives DEF BridgeInv, RetireInv

(* Everything but types, for the steps of posts and streams. *)
LEMMA QuietStep ==
    ASSUME BridgeInv, TypeOK', PostsGoOn, SessionsStay, LocksStayFree,
           NEW t \in Tasks, NEW label, Moves(t, label),
           t \in Posts \/ \E s \in Sessions : t = Stream(s),
           label \in UnderLock => label = pc[t] \/ (pc[t] \in UnderLock /\ label # "cUpstreams"),
           label \in UnderLock /\ t \in Posts => work'[t].on = work[t].on,
           \A q \in Posts : q # t => work'[q].on = work[q].on,
           UNCHANGED <<closing, draining>>
    PROVE  BridgeInv'
<1>1. StageInv' /\ QuietInv' /\ TrackedInv'
  BY StagesStay
<1>2. t # Reload /\ \A s \in Sessions : Expiry(s) \in Tasks /\ t # Expiry(s)
  BY Kinds
<1>3. CleanupInv'
  <2>1. Closing(t)' = Closing(t) \/ label \notin UnderLock
    BY <1>2 DEF Closing
  <2>2. label \in UnderLock => Closing(t) \in Sessions /\ session[Closing(t)].stage = "closed"
    BY ClosingExists DEF BridgeInv, CleanupInv, UnderLock, CleanupLabels
  <2>3. label = "cUpstreams" => WorkEnded(Closing(t))
    BY DEF BridgeInv, CleanupInv, UnderLock
  <2>4. label = "cUpstreams" => WorkEnded(Closing(t))'
    <3> DEFINE s == Closing(t)
    <3>1. \A q \in Posts : label = "cUpstreams" /\ work[q].on = s => ~Alive(work[q])
      BY <2>3, Alives
    <3>2. \A q \in Posts : label = "cUpstreams" /\ work'[q].on = s => ~Alive(work'[q])
      BY <2>2, <3>1 DEF PostsGoOn, Continues, UnderLock
    <3> QED
      BY <2>1, <3>2 DEF WorkEnded, SetupEnded, ResponseEnded, Alive, UnderLock
  <2>5. ClosedStay
    BY DEF ClosedStay, SessionsStay
  <2>6. \A u \in Tasks : u # t => pc'[u] \in {pc[u], "done"}
    BY DEF Moves
  <2>7. pc'[t] \in UnderLock => session'[Closing(t)'].stage = "closed"
    BY <2>1, <2>2, <2>5 DEF Moves, ClosedStay
  <2>8. pc'[t] = "cUpstreams" => WorkEnded(Closing(t))'
    BY <2>4 DEF Moves
  <2> QED
    BY <1>2, <2>5, <2>6, <2>7, <2>8, CleanupsStay
<1>4. RetireInv'
  BY <1>2, Kinds, RetirementStays DEF SessionsStay, Moves
<1>5. SessionsEndOnce'
  BY <1>2 DEF BridgeInv, SessionsEndOnce, SessionsStay, Moves, StageInv
<1> QED
  BY <1>1, <1>3, <1>4, <1>5 DEF BridgeInv, PostsInv, PostsGoOn

-----------------------------------------------------------------------------
(* The steps of a post: only its own work and label change. *)

(* The work of post p becomes w. *)
Becomes(p, w) == work' = [work EXCEPT ![p] = w]

LEMMA StepOfPost ==
    ASSUME BridgeInv, NEW p \in Posts, NEW w \in WorkRecord, NEW label \in LabelsOf(p),
           Becomes(p, w), Moves(p, label),
           Sound(w, label), Continues(work[p], w),
           session' \in [Sessions -> SessionRecord], SessionsStay,
           lock' \in [Sessions -> LockRecord], LocksStayFree,
           label \in UnderLock => label = pc[p] \/ (pc[p] \in UnderLock /\ label # "cUpstreams"),
           label \in UnderLock => w.on = work[p].on,
           UNCHANGED <<closing, draining>>
    PROVE  BridgeInv'
<1>1. work' \in [Posts -> WorkRecord] /\ work'[p] = w /\ \A q \in Posts : q # p => work'[q] = work[q]
  BY TypeIs DEF BridgeInv, Becomes
<1>2. PostsGoOn
  <2>1. ASSUME NEW q \in Posts, q # p
        PROVE  Sound(work'[q], pc'[q]) /\ Continues(work[q], work'[q])
    <3>1. work'[q] = work[q] /\ pc'[q] = pc[q] /\ work[q] \in WorkRecord
      BY <1>1, <2>1, Kinds, TypeIs DEF BridgeInv, Moves
    <3> QED
      BY <3>1, CancelContinues DEF BridgeInv, PostsInv
  <2>2. Sound(work'[p], pc'[p]) /\ Continues(work[p], work'[p])
    BY <1>1 DEF Moves
  <2> QED
    BY <2>1, <2>2 DEF PostsGoOn
<1>3. \A u \in Tasks : pc'[u] \in LabelsOf(u)
  BY Kinds, TypeIs DEF BridgeInv, Moves
<1>4. TypeOK'
  BY <1>1, <1>3, TypeIs DEF TypeOK, BridgeInv, Moves, SessionRecord, LockRecord, WorkRecord
<1>5. p \in Tasks
  BY Kinds
<1> HIDE DEF Becomes
<1> QED
  BY <1>1, <1>2, <1>4, <1>5, QuietStep

(* What the post changes of its lock. *)
LEMMA LockChanges ==
    ASSUME TypeOK, NEW t \in Tasks, NEW s
    PROVE  /\ lock' = [lock EXCEPT ![s] = Without(@, t)] =>
                  lock' \in [Sessions -> LockRecord] /\ LocksStayFree
           /\ lock' = [lock EXCEPT ![s] = Queued(@, t)] =>
                  lock' \in [Sessions -> LockRecord] /\ LocksStayFree
           /\ UNCHANGED lock => lock' \in [Sessions -> LockRecord] /\ LocksStayFree
<1> lock \in [Sessions -> LockRecord]
  BY TypeIs
<1>1. CASE s \in Sessions
  <2>1. /\ Without(lock[s], t) \in LockRecord /\ Queued(lock[s], t) \in LockRecord
        /\ Queued(lock[s], t).owner = lock[s].owner
        /\ Without(lock[s], t).owner # None => lock[s].owner # None
    BY <1>1, LockTypes
  <2> QED
    BY <1>1, <2>1 DEF LocksStayFree
<1>2. CASE s \notin Sessions
  BY <1>2, TypeIs DEF LocksStayFree
<1> QED
  BY <1>1, <1>2

LEMMA SameSessions ==
    ASSUME TypeOK, UNCHANGED session
    PROVE  session' \in [Sessions -> SessionRecord] /\ SessionsStay
BY TypeIs DEF SessionsStay

(* A post that gives its leases back and ends. *)
LEMMA PostLeaves ==
    ASSUME BridgeInv, NEW p \in Posts, Becomes(p, Over(work[p])), Goto(p, "idle"),
           lock' \in [Sessions -> LockRecord], LocksStayFree,
           work[p].ctx = "entered" => "late-cancel" \in Environment,
           work[p].ctx = "tracked" => "cancel-abort" \in Environment,
           UNCHANGED <<session, closing, draining>>
    PROVE  BridgeInv'
<1>1. work[p] \in WorkRecord /\ TypeOK /\ p \in Tasks
  BY TypeIs, Kinds DEF BridgeInv
<1>2. Over(work[p]) \in WorkRecord /\ Continues(work[p], Over(work[p]))
  BY <1>1, WorkTypes, OverContinues
<1>3. Sound(Over(work[p]), "idle")
  BY <1>1, WorkChanges DEF Sound, Sections, Handoffs, CleanupLabels, WorkRecord
<1>4. "idle" \in LabelsOf(p) /\ "idle" \notin UnderLock
  BY Kinds DEF PostLabels, UnderLock
<1>5. Moves(p, "idle")
  BY <1>1, GotoMoves
<1> QED
  BY <1>1, <1>2, <1>3, <1>4, <1>5, SameSessions, StepOfPost

(* An action that gives p the work w and the label leaves the rest to      *)
(* StepOfPost.                                                             *)
LEMMA PostMoves ==
    ASSUME BridgeInv, NEW p \in Posts, NEW w \in WorkRecord, NEW label \in LabelsOf(p),
           Becomes(p, w), Goto(p, label) \/ (UNCHANGED pc /\ label = pc[p]),
           Sound(w, label), Continues(work[p], w),
           lock' \in [Sessions -> LockRecord], LocksStayFree,
           label \in UnderLock => (label = pc[p] \/ pc[p] = "cTasks") /\ w.on = work[p].on,
           label = "cUpstreams" => label = pc[p],
           UNCHANGED <<session, closing, draining>>
    PROVE  BridgeInv'
<1>1. TypeOK /\ p \in Tasks
  BY Kinds DEF BridgeInv
<1>2. Moves(p, label)
  BY <1>1, GotoMoves
<1> HIDE DEF Becomes
<1> QED
  BY <1>1, <1>2, SameSessions, StepOfPost DEF UnderLock

LEMMA PostFacts ==
    ASSUME BridgeInv, NEW p \in Posts
    PROVE  /\ TypeOK /\ p \in Tasks /\ work[p] \in WorkRecord /\ Sound(work[p], pc[p])
           /\ pc[p] \in PostLabels \cup CleanupLabels
           /\ LabelsOf(p) = PostLabels \cup CleanupLabels
           /\ work \in [Posts -> WorkRecord]
BY TypeIs, Kinds DEF BridgeInv, PostsInv

LEMMA SetupSteps ==
    ASSUME BridgeInv, NEW p \in Posts, SetupStep(p)
    PROVE  BridgeInv'
<1>1. PICK setup, ctx :
          /\ \/ setup = "entered" /\ ctx = "entered"
             \/ setup \in {"failed", "cancelled"} /\ ctx = work[p].ctx
          /\ Becomes(p, [work[p] EXCEPT !.setup = setup, !.ctx = ctx])
  <2>1. CASE SetupEnters(p)
    BY <2>1 DEF SetupEnters, Becomes
  <2>2. CASE SetupFails(p)
    <3> DEFINE x == IF work[p].setup = "dying" THEN "cancelled" ELSE "failed"
    <3>1. work' = [work EXCEPT ![p].setup = x]
      BY <2>2 DEF SetupFails
    <3> HIDE DEF x
    <3>2. [work[p] EXCEPT !.setup = x] = [work[p] EXCEPT !.setup = x, !.ctx = work[p].ctx]
      BY PostFacts DEF WorkRecord
    <3>3. x \in {"failed", "cancelled"}
      BY DEF x
    <3> QED
      BY <3>1, <3>2, <3>3 DEF Becomes
  <2> QED
    BY <2>1, <2>2 DEF SetupStep
<1> DEFINE w == [work[p] EXCEPT !.setup = setup, !.ctx = ctx]
<1>2. /\ UNCHANGED <<session, lock, pc, closing, draining>>
      /\ work[p].setup \in {"connecting", "dying"}
  BY DEF SetupStep, SetupEnters, SetupFails, SetupEnded
<1>3. pc[p] = "setup"
  BY <1>2, PostFacts DEF Sound, Sections, Handoffs, CleanupLabels, PostLabels
<1>4. /\ w.on = work[p].on /\ w.setup = setup /\ w.ctx = ctx
      /\ w.held = work[p].held /\ w.response = work[p].response
      /\ w \in WorkRecord
  BY <1>1, PostFacts DEF WorkRecord, Setups
<1> HIDE DEF w
<1>5. Sound(w, "setup") /\ Continues(work[p], w)
  BY <1>1, <1>2, <1>3, <1>4, PostFacts DEF Sound, Sections, Handoffs, CleanupLabels, Continues, Alive
<1>6. Becomes(p, w)
  BY <1>1 DEF w
<1>7. lock' \in [Sessions -> LockRecord] /\ LocksStayFree
  BY <1>2, PostFacts, LockChanges
<1> HIDE DEF Becomes
<1> QED
  BY <1>2, <1>3, <1>4, <1>5, <1>6, <1>7, PostFacts, PostMoves DEF PostLabels, UnderLock

(* Each way in which a post ends without a response of its own. *)
LEMMA PostEndings ==
    ASSUME BridgeInv, NEW p \in Posts,
           \/ PostFails(p) \/ PostEnds(p) \/ LateAnswered(p) \/ CancelLate(p) \/ AbortAbandoned(p)
           \/ CancelEnding(p) /\ pc[p] # "errorBody"
    PROVE  BridgeInv'
<1>1. /\ Becomes(p, Over(work[p])) /\ Goto(p, "idle")
      /\ UNCHANGED lock \/ lock' = [lock EXCEPT ![work[p].on] = Without(@, p)]
      /\ UNCHANGED <<session, closing, draining>>
  BY DEF PostFails, PostEnds, LateAnswered, CancelLate, AbortAbandoned, CancelEnding, Becomes
<1>2. lock' \in [Sessions -> LockRecord] /\ LocksStayFree
  BY <1>1, PostFacts, LockChanges
<1>3. \/ pc[p] = "setup" /\ work[p].setup \in {"failed", "cancelled"}
      \/ pc[p] \in {"ending", "late", "qLate"} \cup CleanupLabels
      \/ "late-cancel" \in Environment /\ pc[p] \in {"setup"} \cup Sections
      \/ pc[p] = "abandon"
  BY DEF PostFails, PostEnds, LateAnswered, CancelLate, AbortAbandoned, CancelEnding, Entering,
         Sections, CleanupLabels
<1>4. /\ work[p].ctx = "entered" => "late-cancel" \in Environment
      /\ work[p].ctx = "tracked" => "cancel-abort" \in Environment
  BY <1>3, PostFacts DEF Sound, Sections, Handoffs
<1> QED
  BY <1>1, <1>2, <1>4, PostLeaves

(* The upstream of the post is left. *)
LEMMA PostCloses ==
    ASSUME BridgeInv, NEW p \in Posts, NEW label \in {"ending", "late"},
           Becomes(p, [work[p] EXCEPT !.ctx = "closed"]), Goto(p, label),
           \/ label = "ending" /\ pc[p] \in {"setup", "errorBody"} \cup Sections
           \/ label = "ending" /\ pc[p] = "abort" /\ ResponseEnded(p)
           \/ label = "late" /\ pc[p] = "handoff" /\ work[p].response = "never",
           work[p].setup = "entered",
           lock' \in [Sessions -> LockRecord], LocksStayFree,
           UNCHANGED <<session, closing, draining>>
    PROVE  BridgeInv'
<1> DEFINE w == [work[p] EXCEPT !.ctx = "closed"]
<1>1. /\ w.on = work[p].on /\ w.setup = work[p].setup /\ w.ctx = "closed"
      /\ w.held = work[p].held /\ w.response = work[p].response
      /\ w \in WorkRecord /\ Becomes(p, w)
  BY PostFacts DEF WorkRecord
<1> HIDE DEF w
<1>2. Continues(work[p], w)
  BY <1>1 DEF Continues, Alive
<1>3. Sound(w, label)
  BY <1>1, PostFacts DEF Sound, Sections, Handoffs, CleanupLabels, ResponseEnded
<1> HIDE DEF Becomes
<1> QED
  BY <1>1, <1>2, <1>3, PostFacts, PostMoves DEF PostLabels, UnderLock

LEMMA PostClosings ==
    ASSUME BridgeInv, NEW p \in Posts,
           \/ PostRejected(p) \/ ErrorRead(p) \/ PostKeepsWork(p) \/ AbortEnds(p)
           \/ CancelEnding(p) /\ pc[p] = "errorBody"
    PROVE  BridgeInv'
<1> DEFINE s == work[p].on
<1>1. /\ UNCHANGED <<session, closing, draining>>
      /\ Becomes(p, [work[p] EXCEPT !.ctx = "closed"])
      /\ UNCHANGED lock \/ lock' = [lock EXCEPT ![s] = Without(@, p)]
  BY DEF PostRejected, ErrorRead, PostKeepsWork, AbortEnds, CancelEnding, Becomes
<1>2. lock' \in [Sessions -> LockRecord] /\ LocksStayFree
  BY <1>1, PostFacts, LockChanges
<1>3. CASE PostRejected(p)
  <2>1. pc[p] \in {"setup"} \cup Sections /\ work[p].setup = "entered" /\ Goto(p, "ending")
    BY <1>3 DEF PostRejected, EnterSection, Entering, Sections
  <2> QED
    BY <1>1, <1>2, <2>1, PostCloses
<1>4. CASE ErrorRead(p) \/ (CancelEnding(p) /\ pc[p] = "errorBody")
  <2>1. pc[p] = "errorBody" /\ Goto(p, "ending")
    BY <1>4 DEF ErrorRead, CancelEnding
  <2> QED
    BY <1>1, <1>2, <2>1, PostFacts, PostCloses DEF Sound
<1>5. CASE PostKeepsWork(p)
  BY <1>1, <1>2, <1>5, PostFacts, PostCloses DEF PostKeepsWork, Sound, Handoffs
<1>6. CASE AbortEnds(p)
  BY <1>1, <1>2, <1>6, PostFacts, PostCloses DEF AbortEnds, Sound, Handoffs
<1> QED
  BY <1>3, <1>4, <1>5, <1>6

(* A post that waits for the lock, or is cancelled while it awaits others, *)
(* keeps its work.                                                         *)
LEMMA PostWaitings ==
    ASSUME BridgeInv, NEW p \in Posts, PostWaits(p) \/ LateWaits(p) \/ CancelCleanup(p) \/ CancelAbort(p)
    PROVE  BridgeInv'
<1>1. PICK label \in Sections \cup {"qLate", "cAbort", "abandon"} :
          /\ Goto(p, label)
          /\ \/ label \in Sections /\ pc[p] = "setup" /\ work[p].setup = "entered"
             \/ label = "qLate" /\ pc[p] = "late"
             \/ label = "cAbort" /\ pc[p] = "cTasks"
             \/ label = "abandon" /\ pc[p] = "abort" /\ "cancel-abort" \in Environment
  BY DEF PostWaits, LateWaits, CancelCleanup, CancelAbort, Sections, Goto
<1>2. /\ UNCHANGED <<session, work, closing, draining>>
      /\ UNCHANGED lock \/ lock' = [lock EXCEPT ![work[p].on] = Queued(@, p)]
  BY DEF PostWaits, LateWaits, CancelCleanup, CancelAbort
<1>3. lock' \in [Sessions -> LockRecord] /\ LocksStayFree
  BY <1>2, PostFacts, LockChanges
<1>4. Sound(work[p], label)
  BY <1>1, PostFacts DEF Sound, Sections, Handoffs, CleanupLabels
<1>5. Continues(work[p], work[p]) /\ Becomes(p, work[p])
  BY <1>2, PostFacts, CancelContinues DEF Becomes
<1> HIDE DEF Becomes
<1> QED
  BY <1>1, <1>2, <1>3, <1>4, <1>5, PostFacts, PostMoves
     DEF PostLabels, CleanupLabels, Sections, UnderLock

(* A post that has found the session open and the endpoint in service. *)
LEMMA PostGoesOn ==
    ASSUME BridgeInv, NEW p \in Posts, PostReadsError(p) \/ PostPublishes(p)
    PROVE  BridgeInv'
<1>1. PICK response \in {"none", "ready"}, label \in {"errorBody", "handoff"} :
          /\ Becomes(p, [work[p] EXCEPT !.ctx = "tracked", !.response = response])
          /\ Goto(p, label)
          /\ label = "errorBody" <=> response = "none"
  <2>1. CASE PostReadsError(p)
    <3>1. work[p].response = "none"
      BY <2>1, PostFacts DEF PostReadsError, EnterSection, Entering, Sound, Sections
    <3>2. [work[p] EXCEPT !.ctx = "tracked"] = [work[p] EXCEPT !.ctx = "tracked", !.response = "none"]
      BY <3>1, PostFacts DEF WorkRecord
    <3> QED
      BY <2>1, <3>2 DEF PostReadsError, Becomes
  <2>2. CASE PostPublishes(p)
    BY <2>2 DEF PostPublishes, Becomes
  <2> QED
    BY <2>1, <2>2
<1> DEFINE w == [work[p] EXCEPT !.ctx = "tracked", !.response = response]
<1>2. /\ pc[p] \in {"setup"} \cup Sections /\ work[p].setup = "entered" /\ ~Rejection(p)
      /\ UNCHANGED <<session, closing, draining>>
      /\ lock' = [lock EXCEPT ![work[p].on] = Without(@, p)]
  BY DEF PostReadsError, PostPublishes, EnterSection, Entering, Sections
<1>3. /\ w.on = work[p].on /\ w.setup = "entered" /\ w.ctx = "tracked"
      /\ w.held = work[p].held /\ w.response = response
      /\ w \in WorkRecord /\ Becomes(p, w)
  BY <1>1, <1>2, PostFacts DEF WorkRecord, Responses
<1> HIDE DEF w
<1>4. work[p].held /\ work[p].on \in Sessions
  BY <1>2, PostFacts DEF Sound, Sections
<1>5. session[w.on].stage = "open" /\ ~draining
  BY <1>2, <1>3, <1>4, TypeIs DEF Rejection, BridgeInv, StageInv, SessionRecord
<1>6. Continues(work[p], w)
  BY <1>3, <1>4, <1>5 DEF Continues
<1>7. Sound(w, label)
  BY <1>1, <1>3, <1>4 DEF Sound, Sections, Handoffs, CleanupLabels
<1>8. lock' \in [Sessions -> LockRecord] /\ LocksStayFree
  BY <1>2, PostFacts, LockChanges
<1> HIDE DEF Becomes
<1> QED
  BY <1>1, <1>2, <1>3, <1>6, <1>7, <1>8, PostFacts, PostMoves DEF PostLabels, UnderLock

LEMMA PostAnswers ==
    ASSUME BridgeInv, NEW p \in Posts, PostAccepted(p)
    PROVE  BridgeInv'
<1>1. pc[p] = "handoff" /\ Goto(p, "idle") /\ UNCHANGED <<session, lock, closing, draining>>
  BY DEF PostAccepted
<1>2. lock' \in [Sessions -> LockRecord] /\ LocksStayFree
  BY <1>1, PostFacts, LockChanges
<1>3. CASE work[p].response = "done"
  <2>1. Becomes(p, Over(work[p])) /\ work[p].ctx = "closed"
    BY <1>1, <1>3, PostFacts DEF PostAccepted, Becomes, Sound
  <2> QED
    BY <1>1, <1>2, <2>1, PostLeaves
<1>4. CASE work[p].response # "done"
  <2>1. work' = work
    BY <1>4, PostFacts DEF PostAccepted
  <2>2. Becomes(p, work[p]) /\ Continues(work[p], work[p])
    BY <2>1, PostFacts, CancelContinues DEF Becomes
  <2>3. Sound(work[p], "idle")
    BY <1>1, <1>4, PostFacts DEF PostAccepted, Entered, Sound, Sections, Handoffs, CleanupLabels
  <2> HIDE DEF Becomes
  <2> QED
    BY <1>1, <1>2, <2>2, <2>3, PostFacts, PostMoves DEF PostLabels, UnderLock
<1> QED
  BY <1>3, <1>4

LEMMA PostCancels ==
    ASSUME BridgeInv, NEW p \in Posts, CancelWaiting(p)
    PROVE  BridgeInv'
<1>1. /\ Becomes(p, CancelWork(work[p]))
      /\ \/ UNCHANGED pc /\ pc[p] = "setup"
         \/ Goto(p, "abort") /\ pc[p] = "handoff"
      /\ UNCHANGED <<session, lock, closing, draining>>
  BY DEF CancelWaiting, Becomes
<1>2. lock' \in [Sessions -> LockRecord] /\ LocksStayFree
  BY <1>1, PostFacts, LockChanges
<1>3. /\ CancelWork(work[p]) \in WorkRecord /\ Continues(work[p], CancelWork(work[p]))
      /\ Sound(CancelWork(work[p]), pc[p])
  BY PostFacts, WorkTypes, CancelContinues, SoundWhenCancelled
<1>4. pc[p] = "handoff" => Sound(CancelWork(work[p]), "abort")
  BY <1>3 DEF Sound, Sections, Handoffs, CleanupLabels
<1> HIDE DEF Becomes
<1> QED
  BY <1>1, <1>2, <1>3, <1>4, PostFacts, PostMoves DEF PostLabels, UnderLock

-----------------------------------------------------------------------------
(* The steps of a response, which leave the label of its post alone. *)

(* Where the post of a response may be. *)
LEMMA Responding ==
    ASSUME BridgeInv, NEW p \in Posts, work[p].response # "none"
    PROVE  /\ work[p].on \in Sessions /\ work[p].setup = "entered"
           /\ pc[p] \in {"idle", "late", "qLate", "ending"} \cup Handoffs
           /\ work[p].response \notin {"never", "done"} => pc[p] \in {"idle"} \cup Handoffs
           /\ work[p].response \in {"ready", "doomed"} => pc[p] \in Handoffs
           /\ work[p].response \notin {"never", "done"} => work[p].held
BY PostFacts DEF Sound, Sections, Handoffs, CleanupLabels, PostLabels

(* The response goes on, and has closed its upstream if it is closing. *)
LEMMA ResponseGoesOn ==
    ASSUME BridgeInv, NEW p \in Posts, NEW x \in Responses, NEW ctx \in {work[p].ctx, "closed"},
           work[p].response \in {"ready", "doomed", "reading", "put", "unwinding"},
           x \in {"never", "reading", "put", "closing"},
           x = "never" => work[p].response = "doomed",
           x = "put" => session[work[p].on].stage = "open",
           x = "closing" => ctx = "closed",
           Becomes(p, [work[p] EXCEPT !.response = x, !.ctx = ctx]),
           session' \in [Sessions -> SessionRecord], SessionsStay,
           UNCHANGED <<lock, pc, closing, draining>>
    PROVE  BridgeInv'
<1> DEFINE w == [work[p] EXCEPT !.response = x, !.ctx = ctx]
<1>1. /\ w.on = work[p].on /\ w.setup = work[p].setup /\ w.ctx = ctx
      /\ w.held = work[p].held /\ w.response = x
      /\ w \in WorkRecord /\ Becomes(p, w)
  BY PostFacts DEF WorkRecord
<1> HIDE DEF w
<1>2. /\ work[p].on \in Sessions /\ work[p].setup = "entered" /\ work[p].held
      /\ pc[p] \in {"idle"} \cup Handoffs
      /\ x = "never" => pc[p] \in Handoffs
  BY Responding
<1>3. Continues(work[p], w)
  BY <1>1, <1>2 DEF Continues, Alive
<1>4. Sound(w, pc[p])
  BY <1>1, <1>2, PostFacts DEF Sound, Sections, Handoffs, CleanupLabels
<1>5. lock' \in [Sessions -> LockRecord] /\ LocksStayFree
  BY PostFacts, LockChanges
<1>6. Moves(p, pc[p])
  BY PostFacts, GotoMoves
<1> HIDE DEF Becomes
<1> QED
  BY <1>1, <1>2, <1>3, <1>4, <1>5, <1>6, PostFacts, StepOfPost DEF UnderLock, Handoffs

LEMMA ResponseSteps ==
    ASSUME BridgeInv, NEW p \in Posts,
           \/ ResponseStarts(p) \/ ResponseNeverStarts(p) \/ EnqueueWaits(p) \/ ResponseEnds(p)
    PROVE  BridgeInv'
<1>1. session' \in [Sessions -> SessionRecord] /\ SessionsStay
  BY PostFacts, SameSessions DEF ResponseStarts, ResponseNeverStarts, EnqueueWaits, ResponseEnds
<1>2. \A x : [work[p] EXCEPT !.response = x] = [work[p] EXCEPT !.response = x, !.ctx = work[p].ctx]
  BY PostFacts DEF WorkRecord
<1>3. CASE ResponseStarts(p)
  BY <1>1, <1>2, <1>3, ResponseGoesOn DEF ResponseStarts, Becomes, Responses
<1>4. CASE ResponseNeverStarts(p)
  BY <1>1, <1>2, <1>4, ResponseGoesOn DEF ResponseNeverStarts, Becomes, Responses
<1>5. CASE EnqueueWaits(p)
  BY <1>1, <1>2, <1>5, ResponseGoesOn DEF EnqueueWaits, Becomes, Responses
<1>6. CASE ResponseEnds(p)
  BY <1>1, <1>6, ResponseGoesOn DEF ResponseEnds, Becomes, Responses
<1> QED
  BY <1>3, <1>4, <1>5, <1>6

(* An event is queued on a session that is owned and has not failed. *)
LEMMA EnqueueStep ==
    ASSUME BridgeInv, NEW p \in Posts, Enqueue(p)
    PROVE  BridgeInv'
<1> DEFINE s == work[p].on
<1>1. work[p].response \in {"reading", "put"} /\ s \in Sessions
  BY Responding DEF Enqueue
<1>2. session[s].owned /\ ~session[s].terminal
  <2>1. CASE session[s].stage = "open"
    BY <1>1, <2>1 DEF BridgeInv, StageInv
  <2>2. CASE work[p].response = "put"
    BY <1>1, <2>2, Alives DEF BridgeInv, QuietInv, Alive
  <2> QED
    BY <2>1, <2>2 DEF Enqueue
<1>3. session[s].stage \in {"none", "open", "closed"}
  BY <1>1, PostFacts, TypeIs DEF SessionRecord
<1>4. session \in [Sessions -> SessionRecord]
  BY PostFacts, TypeIs
<1>5. session' = [session EXCEPT ![s] = [Touched(@) EXCEPT !.queue = session[s].queue + 1]]
  BY DEF Enqueue
<1>6. session[s].queue + 1 \in 0 .. Capacity
  BY <1>1, <1>4, BridgeBounds DEF Enqueue, SessionRecord
<1>7. session' \in [Sessions -> SessionRecord] /\ SessionsStay
  <2> DEFINE r == [Touched(session[s]) EXCEPT !.queue = session[s].queue + 1]
  <2>1. session[s] \in SessionRecord
    BY <1>1, <1>4
  <2>2. /\ r \in SessionRecord /\ ~r.expired
        /\ r.stage = session[s].stage /\ r.owned = session[s].owned
        /\ r.terminal = session[s].terminal /\ r.expirations = session[s].expirations
    BY <1>6, <2>1, SessionChanges DEF SessionRecord
  <2>3. session' = [session EXCEPT ![s] = r]
    BY <1>5
  <2> HIDE DEF r, s
  <2> QED
    BY <1>1, <1>2, <1>4, <2>2, <2>3 DEF SessionsStay
<1>8. Becomes(p, [work[p] EXCEPT !.response = "reading", !.ctx = work[p].ctx])
  <2>1. [work[p] EXCEPT !.response = "reading"]
            = [work[p] EXCEPT !.response = "reading", !.ctx = work[p].ctx]
    BY PostFacts DEF WorkRecord
  <2> QED
    BY <2>1 DEF Enqueue, Becomes
<1>9. UNCHANGED <<lock, pc, closing, draining>>
  BY DEF Enqueue
<1> HIDE DEF Becomes
<1> QED
  BY <1>1, <1>7, <1>8, <1>9, ResponseGoesOn DEF Responses

LEMMA CompletionStep ==
    ASSUME BridgeInv, NEW p \in Posts, ResponseCompletes(p)
    PROVE  BridgeInv'
<1>1. work[p].response = "closing" /\ UNCHANGED <<session, lock, pc, closing, draining>>
  BY DEF ResponseCompletes
<1>2. pc[p] \in {"idle"} \cup Handoffs /\ work[p].on \in Sessions /\ work[p].setup = "entered"
  BY <1>1, Responding
<1>3. lock' \in [Sessions -> LockRecord] /\ LocksStayFree
  BY <1>1, PostFacts, LockChanges
<1>4. work[p].ctx = "closed"
  BY <1>1, PostFacts DEF Sound
<1>5. CASE pc[p] = "idle"
  <2>1. Becomes(p, Over(work[p])) /\ Over(work[p]) \in WorkRecord
        /\ Continues(work[p], Over(work[p]))
    BY <1>5, PostFacts, OverContinues, WorkTypes DEF ResponseCompletes, Becomes
  <2>2. Sound(Over(work[p]), "idle")
    BY <1>4, PostFacts, WorkChanges DEF Sound, Sections, Handoffs, CleanupLabels
  <2> HIDE DEF Becomes
  <2> QED
    BY <1>1, <1>3, <1>5, <2>1, <2>2, PostFacts, PostMoves DEF UnderLock
<1>6. CASE pc[p] # "idle"
  <2> DEFINE w == [work[p] EXCEPT !.response = "done", !.held = FALSE]
  <2>1. /\ w.on = work[p].on /\ w.setup = work[p].setup /\ w.ctx = "closed"
        /\ ~w.held /\ w.response = "done"
        /\ w \in WorkRecord /\ Becomes(p, w)
    BY <1>4, <1>6, PostFacts DEF WorkRecord, Responses, ResponseCompletes, Becomes
  <2> HIDE DEF w
  <2>2. Continues(work[p], w) /\ Sound(w, pc[p])
    BY <1>2, <1>6, <2>1, PostFacts DEF Continues, Alive, Sound, Sections, Handoffs, CleanupLabels
  <2> HIDE DEF Becomes
  <2> QED
    BY <1>1, <1>2, <1>3, <1>6, <2>1, <2>2, PostFacts, PostMoves DEF UnderLock, Handoffs
<1> QED
  BY <1>5, <1>6

LEMMA ArrivalStep ==
    ASSUME BridgeInv, NEW p \in Posts, PostArrives(p)
    PROVE  BridgeInv'
<1>1. PICK s \in Sessions :
          /\ session[s].stage = "open" /\ ~draining
          /\ session' = [session EXCEPT ![s] = Touched(@)]
          /\ Becomes(p, [NewPost(s) EXCEPT !.setup = "connecting"])
          /\ Goto(p, "setup") /\ pc[p] = "idle"
          /\ UNCHANGED <<lock, closing, draining>>
  BY DEF PostArrives, Addresses, Becomes
<1> DEFINE w == [NewPost(s) EXCEPT !.setup = "connecting"]
<1>2. /\ w.on = s /\ w.setup = "connecting" /\ w.response = "none" /\ w.ctx = "none" /\ w.held
      /\ w \in WorkRecord
  BY DEF NewPost, NoWork, WorkRecord, Setups, Responses
<1> HIDE DEF w
<1>3. Becomes(p, w)
  BY <1>1 DEF w
<1>4. session' \in [Sessions -> SessionRecord] /\ SessionsStay
  <2>1. session \in [Sessions -> SessionRecord] /\ session[s] \in SessionRecord
    BY PostFacts, TypeIs
  <2> DEFINE r == Touched(session[s])
  <2>2. /\ r \in SessionRecord /\ ~r.expired
        /\ r.stage = session[s].stage /\ r.owned = session[s].owned
        /\ r.terminal = session[s].terminal /\ r.queue = session[s].queue
        /\ r.expirations = session[s].expirations
    BY <2>1, SessionChanges
  <2>3. session' = [session EXCEPT ![s] = r]
    BY <1>1
  <2> HIDE DEF r
  <2> QED
    BY <2>1, <2>2, <2>3 DEF SessionsStay
<1>5. lock' \in [Sessions -> LockRecord] /\ LocksStayFree
  BY <1>1, PostFacts, LockChanges
<1>6. Sound(w, "setup") /\ Continues(work[p], w)
  BY <1>1, <1>2 DEF Sound, Sections, Handoffs, CleanupLabels, Continues
<1>7. Moves(p, "setup")
  BY <1>1, PostFacts, GotoMoves
<1> HIDE DEF Becomes
<1> QED
  BY <1>1, <1>2, <1>3, <1>4, <1>5, <1>6, <1>7, PostFacts, StepOfPost DEF PostLabels, UnderLock

-----------------------------------------------------------------------------
(* The steps of a stream up to its end. *)

(* No post is touched by a step that leaves work and labels of posts alone. *)
LEMMA PostsUntouched ==
    ASSUME BridgeInv, UNCHANGED work, \A q \in Posts : pc'[q] = pc[q]
    PROVE  PostsGoOn
<1>1. ASSUME NEW q \in Posts
      PROVE  Sound(work'[q], pc'[q]) /\ Continues(work[q], work'[q])
  <2>1. work'[q] = work[q] /\ pc'[q] = pc[q] /\ work[q] \in WorkRecord /\ Sound(work[q], pc[q])
    BY PostFacts
  <2> QED
    BY <2>1, CancelContinues
<1> QED
  BY <1>1 DEF PostsGoOn

LEMMA StreamMoves ==
    ASSUME BridgeInv, NEW s \in Sessions, NEW label \in LabelsOf(Stream(s)),
           Goto(Stream(s), label) \/ (UNCHANGED pc /\ label = pc[Stream(s)]),
           label \in UnderLock => label = pc[Stream(s)] \/ (label = "cAbort" /\ pc[Stream(s)] = "cTasks"),
           session' \in [Sessions -> SessionRecord], SessionsStay,
           lock' \in [Sessions -> LockRecord], LocksStayFree,
           UNCHANGED <<work, closing, draining>>
    PROVE  BridgeInv'
<1> DEFINE t == Stream(s)
<1>1. t \in Tasks /\ t \notin Posts /\ TypeOK
  BY Kinds DEF BridgeInv
<1>2. Moves(t, label)
  BY <1>1, GotoMoves
<1>3. PostsGoOn
  BY <1>1, <1>2, Kinds, PostsUntouched DEF Moves
<1>5. TypeOK'
  <2>1. \A u \in Tasks : pc'[u] \in LabelsOf(u)
    BY <1>1, <1>2, TypeIs DEF Moves
  <2> QED
    BY <1>1, <1>2, <2>1, TypeIs DEF TypeOK, Moves, SessionRecord, LockRecord, WorkRecord
<1>6. label \in UnderLock => label = pc[t] \/ (pc[t] \in UnderLock /\ label # "cUpstreams")
  BY DEF UnderLock
<1>7. \E x \in Sessions : t = Stream(x)
  OBVIOUS
<1> HIDE DEF t
<1> QED
  BY <1>1, <1>2, <1>3, <1>5, <1>6, <1>7, QuietStep

(* What a step makes of one session. *)
LEMMA SessionBecomes ==
    ASSUME TypeOK, NEW s \in Sessions, NEW r \in SessionRecord,
           session' = [session EXCEPT ![s] = r]
    PROVE  /\ session' \in [Sessions -> SessionRecord]
           /\ session'[s] = r /\ \A x \in Sessions : x # s => session'[x] = session[x]
           /\ session[s] \in SessionRecord
BY TypeIs

LEMMA StreamSteps ==
    ASSUME BridgeInv, NEW s \in Sessions,
           \/ StreamStart(s) \/ StreamSent(s) \/ StreamFails(s) \/ Disconnect(s)
           \/ StreamCancelledAgain(s)
    PROVE  BridgeInv'
<1>1. PICK label \in StreamLabels \cup CleanupLabels :
          /\ Goto(Stream(s), label)
          /\ label \in UnderLock => label = "cAbort" /\ pc[Stream(s)] = "cTasks"
  BY DEF StreamStart, StreamSent, StreamFails, Disconnect, StreamCancelledAgain, Goto,
         StreamLabels, CleanupLabels, UnderLock
<1>2. /\ UNCHANGED <<session, work, closing, draining>>
      /\ UNCHANGED lock \/ lock' = [lock EXCEPT ![s] = Without(@, Stream(s))]
  BY DEF StreamStart, StreamSent, StreamFails, Disconnect, StreamCancelledAgain
<1>3. session' \in [Sessions -> SessionRecord] /\ SessionsStay
  BY <1>2, SameSessions DEF BridgeInv
<1>4. lock' \in [Sessions -> LockRecord] /\ LocksStayFree
  BY <1>2, Kinds, LockChanges DEF BridgeInv
<1> QED
  BY <1>1, <1>2, <1>3, <1>4, Kinds, StreamMoves

LEMMA DeliveryStep ==
    ASSUME BridgeInv, NEW s \in Sessions, StreamDeliver(s)
    PROVE  BridgeInv'
<1> DEFINE r == [Touched(session[s]) EXCEPT !.queue = session[s].queue - 1]
<1>1. session[s] \in SessionRecord
  BY TypeIs DEF BridgeInv
<1>2. session[s].queue - 1 \in 0 .. Capacity /\ session[s].queue # 0
  BY <1>1, BridgeBounds DEF StreamDeliver, SessionRecord
<1>3. /\ r \in SessionRecord /\ ~r.expired
      /\ r.stage = session[s].stage /\ r.owned = session[s].owned
      /\ r.terminal = session[s].terminal /\ r.expirations = session[s].expirations
  BY <1>1, <1>2, SessionChanges DEF SessionRecord
<1>4. session' = [session EXCEPT ![s] = r]
  BY DEF StreamDeliver
<1>5. session[s].owned /\ ~session[s].terminal
  BY <1>1, <1>2 DEF BridgeInv, QuietInv, SessionsEndOnce, SessionRecord
<1> HIDE DEF r
<1>6. session' \in [Sessions -> SessionRecord] /\ SessionsStay
  BY <1>3, <1>4, <1>5, SessionBecomes DEF BridgeInv, SessionsStay
<1>7. lock' \in [Sessions -> LockRecord] /\ LocksStayFree
  BY Kinds, LockChanges DEF BridgeInv, StreamDeliver
<1> QED
  BY <1>6, <1>7, Kinds, StreamMoves DEF StreamDeliver, StreamLabels, UnderLock

LEMMA TimeStep ==
    ASSUME BridgeInv, NEW s \in Sessions, TimePasses(s)
    PROVE  BridgeInv'
<1> DEFINE r == [session[s] EXCEPT !.expired = TRUE]
<1>1. session[s] \in SessionRecord
  BY TypeIs DEF BridgeInv
<1>2. /\ r \in SessionRecord /\ r.queue = session[s].queue
      /\ r.stage = session[s].stage /\ r.owned = session[s].owned
      /\ r.terminal = session[s].terminal /\ r.expirations = session[s].expirations
  BY <1>1 DEF SessionRecord
<1>3. session' = [session EXCEPT ![s] = r] /\ session[s].stage = "open"
  BY DEF TimePasses
<1> HIDE DEF r
<1>4. session' \in [Sessions -> SessionRecord] /\ SessionsStay
  BY <1>2, <1>3, SessionBecomes DEF BridgeInv, SessionsStay
<1>5. pc[Stream(s)] \in LabelsOf(Stream(s))
  BY Kinds, TypeIs DEF BridgeInv
<1>6. lock' \in [Sessions -> LockRecord] /\ LocksStayFree
  BY Kinds, LockChanges DEF BridgeInv, TimePasses
<1> QED
  BY <1>4, <1>5, <1>6, StreamMoves DEF TimePasses

LEMMA OpeningStep ==
    ASSUME BridgeInv, NEW s \in Sessions, OpenSession(s)
    PROVE  BridgeInv'
<1> DEFINE r == [session[s] EXCEPT !.stage = "open", !.owned = TRUE]
<1>1. session[s] \in SessionRecord /\ session \in [Sessions -> SessionRecord]
  BY TypeIs DEF BridgeInv
<1>2. /\ session[s].stage = "none" /\ ~draining
      /\ session' = [session EXCEPT ![s] = r]
      /\ pc' = [pc EXCEPT ![Stream(s)] = "unstarted", ![Expiry(s)] = "watch"]
      /\ UNCHANGED <<lock, work, closing, draining>>
  BY DEF OpenSession
<1>3. /\ r \in SessionRecord /\ r.queue = session[s].queue /\ r.expired = session[s].expired
      /\ r.stage = "open" /\ r.owned
      /\ r.terminal = session[s].terminal /\ r.expirations = session[s].expirations
  BY <1>1 DEF SessionRecord
<1> HIDE DEF r
<1>4. /\ session' \in [Sessions -> SessionRecord]
      /\ session'[s] = r /\ \A x \in Sessions : x # s => session'[x] = session[x]
  BY <1>2, <1>3, SessionBecomes DEF BridgeInv
<1>5. /\ DOMAIN pc' = Tasks
      /\ pc'[Stream(s)] = "unstarted" /\ pc'[Expiry(s)] = "watch"
      /\ \A u \in Tasks : u \notin {Stream(s), Expiry(s)} => pc'[u] = pc[u]
  BY <1>2, Kinds, TypeIs DEF BridgeInv
<1>6. TypeOK'
  <2>1. \A u \in Tasks : pc'[u] \in LabelsOf(u)
    BY <1>5, Kinds, TypeIs DEF BridgeInv, StreamLabels, ExpiryLabels
  <2> QED
    BY <1>2, <1>4, <1>5, <2>1, TypeIs DEF BridgeInv, TypeOK, SessionRecord, LockRecord, WorkRecord
<1>7. PostsGoOn
  BY <1>2, <1>5, Kinds, PostsUntouched
<1>8. StageInv'
  BY <1>2, <1>3, <1>4 DEF BridgeInv, StageInv
<1>9. QuietInv'
  <2>1. \A x \in Sessions : WorkEnded(x)' = WorkEnded(x)
    BY <1>2 DEF WorkEnded, SetupEnded, ResponseEnded
  <2> QED
    BY <1>2, <1>3, <1>4, <2>1 DEF BridgeInv, StageInv, QuietInv
<1>10. CleanupInv'
  <2>1. ClosedStay
    BY <1>2, <1>4 DEF ClosedStay
  <2>2. \A u \in Tasks : u \notin {Stream(s), Expiry(s)} => pc'[u] = pc[u]
    BY <1>5
  <2>3. \A u \in Tasks : Closing(u)' = Closing(u) /\ WorkEnded(Closing(u))' = WorkEnded(Closing(u))
    BY <1>2 DEF Closing, WorkEnded, SetupEnded, ResponseEnded
  <2>4. \A u \in Tasks : pc'[u] \in CleanupLabels => pc'[u] = pc[u]
    BY <1>5 DEF CleanupLabels
  <2>5. ASSUME NEW u \in Tasks, pc'[u] \in UnderLock
        PROVE  session'[Closing(u)].stage = "closed"
    BY <2>1, <2>4, <2>5, ClosingExists
       DEF BridgeInv, CleanupInv, ClosedStay, UnderLock, CleanupLabels
  <2> QED
    BY <1>2, <2>3, <2>4, <2>5, Kinds DEF BridgeInv, CleanupInv, UnderLock, CleanupLabels
<1>11. RetireInv'
  BY <1>2, <1>5, <1>7, Kinds, RetirementStays
<1>12. SessionsEndOnce'
  <2>1. \A x \in Sessions : x # s => pc'[Expiry(x)] = pc[Expiry(x)]
    BY <1>5, Kinds
  <2>2. SessionsEndOnce
    BY DEF BridgeInv
  <2> SUFFICES ASSUME NEW x \in Sessions
               PROVE  /\ session'[x].stage = "open" /\ ~draining => pc'[Expiry(x)] = "watch"
                      /\ session'[x].expirations <= 1
                      /\ session'[x].expirations = 1 => session'[x].terminal
                      /\ session'[x].terminal => session'[x].queue = 0
    BY <1>2 DEF SessionsEndOnce
  <2>3. CASE x = s
    BY <1>3, <1>4, <1>5, <2>2, <2>3 DEF SessionsEndOnce
  <2>4. CASE x # s
    BY <1>4, <2>1, <2>2, <2>4 DEF SessionsEndOnce
  <2> QED
    BY <2>3, <2>4
<1>13. TrackedInv'
  BY <1>3, <1>4, <1>7, TrackedStay
<1> QED
  BY <1>6, <1>7, <1>8, <1>9, <1>10, <1>11, <1>12, <1>13 DEF BridgeInv, PostsInv, PostsGoOn

-----------------------------------------------------------------------------
(* The beginning of a cleanup. *)

(* A session as the one who closes it leaves it: as it was, or expired. *)
Left(s, r) ==
    \/ r = session[s]
    \/ /\ session[s].stage = "open"
       /\ r.stage = "closed" /\ r.owned = session[s].owned
       /\ r.terminal /\ r.queue = 0 /\ ~r.expired
       /\ r.expirations = session[s].expirations + 1

(* Task t may clean session s up, with the posts' work as w. *)
Closes(t, s, w) ==
    /\ t \in Posts => w[t].on = s /\ Sound(w[t], "qClose") /\ Continues(work[t], w[t])
    /\ t \notin Posts => t \in {Reload, Stream(s), Expiry(s)}
    /\ t = Reload => closing' = s /\ pc[t] \in {"sweep", "qClose"}
    /\ t # Reload => UNCHANGED closing
    /\ \A q \in Posts : q # t => w[q] \in {work[q], CancelWork(work[q])}

LEMMA CloserIs ==
    ASSUME NEW t \in Tasks, NEW s \in Sessions, NEW w, Closes(t, s, w),
           \A q \in Posts : work'[q].on = w[q].on
    PROVE  Closing(t)' = s
BY Closings DEF Closes

LEMMA WorkOfOthers ==
    ASSUME BridgeInv, NEW t \in Tasks, NEW s \in Sessions, NEW w \in [Posts -> WorkRecord],
           Closes(t, s, w), NEW q \in Posts, q # t
    PROVE  /\ w[q].on = work[q].on
           /\ Sound(w[q], pc[q]) /\ Continues(work[q], w[q])
           /\ Sound(CancelWork(w[q]), pc[q]) /\ Continues(work[q], CancelWork(w[q]))
<1>1. work[q] \in WorkRecord /\ Sound(work[q], pc[q]) /\ w[q] \in {work[q], CancelWork(work[q])}
  BY PostFacts DEF Closes
<1>2. /\ w[q].on = work[q].on /\ Sound(w[q], pc[q]) /\ Continues(work[q], w[q])
      /\ w[q] \in WorkRecord
  BY <1>1, SoundWhenCancelled, WorkChanges, CancelContinues
<1>3. Sound(CancelWork(w[q]), pc[q]) /\ Continues(work[q], CancelWork(w[q]))
  BY <1>2, SoundWhenCancelled, WorkChanges DEF Continues
<1> QED
  BY <1>2, <1>3

(* The lock is taken: t queues for it. *)
LEMMA CloseQueues ==
    ASSUME BridgeInv, NEW t \in Tasks, NEW s \in Sessions,
           NEW r \in SessionRecord, NEW w \in [Posts -> WorkRecord],
           Closes(t, s, w), Left(s, r), UNCHANGED draining, closing' \in Sessions \cup {None},
           lock[s].owner \notin {None, t}, StartClose(t, s, r, w)
    PROVE  BridgeInv'
<1>1. /\ lock' = [lock EXCEPT ![s] = Queued(@, t)]
      /\ Goto(t, "qClose")
      /\ session' = [session EXCEPT ![s] = r]
      /\ work' = w
  BY DEF StartClose, Goto
<1>2. session[s].stage = "closed"
  BY DEF BridgeInv, StageInv
<1>3. UNCHANGED session
  BY <1>1, <1>2, TypeIs DEF Left, BridgeInv
<1>4. Moves(t, "qClose")
  BY <1>1, GotoMoves DEF BridgeInv
<1>5. PostsGoOn
  <2>1. ASSUME NEW q \in Posts, q # t
        PROVE  Sound(work'[q], pc'[q]) /\ Continues(work[q], work'[q])
    <3>1. pc'[q] = pc[q] /\ work'[q] = w[q]
      BY <1>1, <1>4, <2>1, Kinds DEF Moves
    <3> QED
      BY <2>1, <3>1, WorkOfOthers
  <2>2. ASSUME NEW q \in Posts, q = t
        PROVE  Sound(work'[q], pc'[q]) /\ Continues(work[q], work'[q])
    BY <1>1, <1>4, <2>2 DEF Moves, Closes
  <2> QED
    BY <2>1, <2>2 DEF PostsGoOn
<1>6. SessionsStay /\ LocksStayFree /\ lock' \in [Sessions -> LockRecord]
  BY <1>1, <1>3, SameSessions, LockChanges DEF BridgeInv
<1>7. TypeOK'
  <2>1. \A u \in Tasks : pc'[u] \in LabelsOf(u)
    BY <1>4, Kinds, TypeIs DEF Moves, CleanupLabels, BridgeInv
  <2> QED
    BY <1>1, <1>3, <1>4, <1>6, <2>1, TypeIs
       DEF BridgeInv, TypeOK, Moves, SessionRecord, LockRecord, WorkRecord
<1>8. StageInv' /\ QuietInv' /\ TrackedInv'
  BY <1>5, <1>6, StagesStay
<1>9. CleanupInv'
  <2>1. ClosedStay
    BY <1>3 DEF ClosedStay
  <2>2. \A q \in Posts : q # t => work'[q].on = work[q].on
    BY <1>1, WorkOfOthers
  <2>3. /\ t # Reload => closing' = closing
        /\ t = Reload => closing' \in Sessions
    BY DEF Closes
  <2>4. \A u \in Tasks : u # t => pc'[u] \in {pc[u], "done"}
    BY <1>4 DEF Moves
  <2>5. pc'[t] \notin UnderLock /\ pc'[t] # "cUpstreams"
    BY <1>4 DEF Moves, UnderLock
  <2> QED
    BY <1>5, <2>1, <2>2, <2>3, <2>4, <2>5, CleanupsStay
<1>10. RetireInv'
  <2>1. pc'[Reload] = pc[Reload] \/ {pc[Reload], pc'[Reload]} \subseteq {"sweep"} \cup CleanupLabels
    BY <1>4, Kinds DEF Moves, Closes, CleanupLabels
  <2> QED
    BY <1>3, <1>5, <2>1, RetirementStays
<1>11. SessionsEndOnce'
  <2>1. \A x \in Sessions : session[x].stage = "open" /\ ~draining => pc'[Expiry(x)] = "watch"
    <3>1. \A x \in Sessions : x # s => Expiry(x) # t
      BY Kinds DEF Closes
    <3> QED
      BY <1>2, <1>4, <3>1, Kinds DEF Moves, BridgeInv, SessionsEndOnce
  <2> QED
    BY <1>3, <2>1 DEF BridgeInv, SessionsEndOnce
<1> QED
  BY <1>5, <1>7, <1>8, <1>9, <1>10, <1>11 DEF BridgeInv, PostsInv, PostsGoOn

(* The lock is free, or t has been handed it: the session is closed and    *)
(* its tasks are cancelled.                                                *)
LEMMA CloseTakes ==
    ASSUME BridgeInv, NEW t \in Tasks, NEW s \in Sessions,
           NEW r \in SessionRecord, NEW w \in [Posts -> WorkRecord],
           Closes(t, s, w), Left(s, r), UNCHANGED draining, closing' \in Sessions \cup {None},
           lock[s].owner \in {None, t}, StartClose(t, s, r, w)
    PROVE  BridgeInv'
<1> DEFINE rr == [Touched(r) EXCEPT !.stage = "closed"]
<1>1. /\ lock' = [lock EXCEPT ![s] = Held(IF t = Expiry(s) THEN @ ELSE Without(@, Expiry(s)), t)]
      /\ pc' = [ExpiryCancelled(t, s) EXCEPT ![t] = "cTasks"]
      /\ session' = [session EXCEPT ![s] = rr]
      /\ work' = [q \in Posts |-> IF w[q].on = s THEN CancelWork(w[q]) ELSE w[q]]
  BY DEF StartClose
<1>2. /\ rr \in SessionRecord /\ rr.stage = "closed" /\ ~rr.expired
      /\ rr.owned = r.owned /\ rr.terminal = r.terminal
      /\ rr.queue = r.queue /\ rr.expirations = r.expirations
  BY SessionChanges DEF SessionRecord
<1> HIDE DEF rr
<1>3. session \in [Sessions -> SessionRecord] /\ lock \in [Sessions -> LockRecord]
      /\ lock[s] \in LockRecord
  BY TypeIs DEF BridgeInv
<1>4. /\ session' \in [Sessions -> SessionRecord]
      /\ session'[s] = rr /\ \A x \in Sessions : x # s => session'[x] = session[x]
  BY <1>1, <1>2, SessionBecomes DEF BridgeInv
<1>5. /\ lock' \in [Sessions -> LockRecord]
      /\ \A x \in Sessions : x # s => lock'[x] = lock[x]
  <2>1. Expiry(s) \in Tasks
    BY Kinds
  <2>2. (IF t = Expiry(s) THEN lock[s] ELSE Without(lock[s], Expiry(s))) \in LockRecord
    BY <1>3, <2>1, LockTypes
  <2>3. Held(IF t = Expiry(s) THEN lock[s] ELSE Without(lock[s], Expiry(s)), t) \in LockRecord
    BY <2>2, LockTypes
  <2> QED
    BY <1>1, <1>3, <2>3
<1>6. /\ DOMAIN pc' = Tasks /\ pc'[t] = "cTasks"
      /\ \A u \in Tasks : u # t => pc'[u] \in {pc[u], "done"}
      /\ \A u \in Tasks : u \notin {t, Expiry(s)} => pc'[u] = pc[u]
  <2>1. DOMAIN pc = Tasks /\ Expiry(s) \in Tasks
    BY Kinds, TypeIs DEF BridgeInv
  <2>2. /\ DOMAIN ExpiryCancelled(t, s) = Tasks
        /\ \A u \in Tasks : ExpiryCancelled(t, s)[u] \in {pc[u], "done"}
        /\ \A u \in Tasks : u # Expiry(s) => ExpiryCancelled(t, s)[u] = pc[u]
    BY <2>1 DEF ExpiryCancelled
  <2> QED
    BY <1>1, <2>2
<1>7. \A q \in Posts : /\ work'[q] = IF w[q].on = s THEN CancelWork(w[q]) ELSE w[q]
                       /\ work'[q].on = w[q].on
                       /\ w[q] \in WorkRecord /\ work'[q] \in WorkRecord
                       /\ work'[q].on = s => work'[q].response # "put"
  BY <1>1, WorkChanges, WorkTypes
<1>8. PostsGoOn
  <2>1. ASSUME NEW q \in Posts, q # t
        PROVE  Sound(work'[q], pc'[q]) /\ Continues(work[q], work'[q])
    <3>1. pc'[q] = pc[q]
      BY <1>6, <2>1, Kinds
    <3> QED
      BY <1>7, <2>1, <3>1, WorkOfOthers
  <2>2. ASSUME NEW q \in Posts, q = t
        PROVE  Sound(work'[q], pc'[q]) /\ Continues(work[q], work'[q])
    <3>1. Sound(w[q], "qClose") /\ Continues(work[q], w[q]) /\ w[q].on = s
      BY <2>2 DEF Closes
    <3>2. Sound(w[q], "cTasks")
      BY <3>1 DEF Sound, Sections, Handoffs, CleanupLabels
    <3>3. Sound(CancelWork(w[q]), "cTasks")
      BY <1>7, <3>2, SoundWhenCancelled
    <3>4. Continues(work[q], CancelWork(w[q]))
      BY <1>7, <3>1, WorkChanges DEF Continues
    <3> QED
      BY <1>6, <1>7, <2>2, <3>1, <3>3, <3>4
  <2> QED
    BY <2>1, <2>2 DEF PostsGoOn
<1>9. TypeOK'
  <2>1. \A u \in Tasks : pc'[u] \in LabelsOf(u)
    <3>1. Expiry(s) \in Tasks /\ "done" \in LabelsOf(Expiry(s)) /\ "cTasks" \in LabelsOf(t)
      BY Kinds DEF ExpiryLabels, CleanupLabels
    <3>2. \A u \in Tasks : pc[u] \in LabelsOf(u)
      BY TypeIs DEF BridgeInv
    <3> QED
      BY <1>6, <3>1, <3>2
  <2>2. work' \in [Posts -> WorkRecord]
    BY <1>1, <1>7
  <2>3. draining' \in BOOLEAN
    BY DEF BridgeInv, TypeOK
  <2> QED
    BY <1>4, <1>5, <1>6, <2>1, <2>2, <2>3
       DEF TypeOK, SessionRecord, LockRecord, WorkRecord
<1>10. r.owned = session[s].owned
  BY DEF Left
<1>11. StageInv'
  <2>1. None \notin Sessions
    BY Kinds
  <2>2. ASSUME NEW x \in Sessions, session'[x].stage = "none", NEW q \in Posts
        PROVE  work'[q].on # x
    BY <1>2, <1>4, <1>8, <2>1, <2>2 DEF BridgeInv, StageInv, PostsGoOn, Continues
  <2>3. ASSUME NEW x \in Sessions, x # s
        PROVE  /\ lock'[x].owner # None => session'[x].stage = "closed"
               /\ session'[x].expired => session'[x].stage = "open"
               /\ session'[x].terminal => session'[x].stage = "closed"
               /\ session'[x].expirations # 0 => session'[x].stage = "closed"
               /\ session'[x].stage = "open" => session'[x].owned
    BY <1>4, <1>5, <2>3 DEF BridgeInv, StageInv
  <2> QED
    BY <1>2, <1>4, <2>2, <2>3 DEF StageInv
<1>12. QuietInv'
  <2>1. ASSUME NEW x \in Sessions, session'[x].terminal, NEW q \in Posts, work'[q].on = x
        PROVE  work'[q].response # "put"
    <3>1. CASE x = s
      BY <1>7, <2>1, <3>1
    <3>2. CASE x # s
      BY <1>4, <1>8, <2>1, <3>2 DEF BridgeInv, StageInv, QuietInv, PostsGoOn, Continues
    <3> QED
      BY <3>1, <3>2
  <2>2. ASSUME NEW x \in Sessions, ~session'[x].owned
        PROVE  ~session[x].owned /\ session'[x].queue = 0
    BY <1>2, <1>4, <1>10, <2>2 DEF BridgeInv, QuietInv, Left
  <2>3. ASSUME NEW x \in Sessions, ~session'[x].owned, NEW q \in Posts, work'[q].on = x
        PROVE  ~Alive(work'[q])
    BY <1>8, <2>2, <2>3, Alives DEF BridgeInv, StageInv, QuietInv, PostsGoOn, Continues
  <2>4. \A x : WorkEnded(x)' <=> \A q \in Posts : work'[q].on = x => ~Alive(work'[q])
    BY DEF WorkEnded, SetupEnded, ResponseEnded, Alive
  <2> QED
    BY <2>1, <2>2, <2>3, <2>4 DEF QuietInv
<1>13. CleanupInv'
  <2>1. ClosedStay
    BY <1>2, <1>4 DEF ClosedStay
  <2>2. \A q \in Posts : q # t => work'[q].on = work[q].on
    BY <1>7, WorkOfOthers
  <2>3. /\ t # Reload => closing' = closing
        /\ t = Reload => closing' \in Sessions
    BY DEF Closes
  <2>4. Closing(t)' = s
    BY <1>7, CloserIs
  <2>5. session'[Closing(t)'].stage = "closed" /\ pc'[t] # "cUpstreams"
    BY <1>2, <1>4, <1>6, <2>4
  <2> QED
    BY <1>6, <1>8, <2>1, <2>2, <2>3, <2>5, CleanupsStay
<1>14. RetireInv'
  <2>1. pc'[Reload] = pc[Reload] \/ {pc[Reload], pc'[Reload]} \subseteq {"sweep"} \cup CleanupLabels
    BY <1>6, Kinds DEF Closes, CleanupLabels
  <2>2. \A x \in Sessions : session'[x].owned => session[x].owned
    BY <1>2, <1>4, <1>10
  <2> QED
    BY <1>8, <2>1, <2>2, RetirementStays
<1>15. SessionsEndOnce'
  <2>1. ASSUME NEW x \in Sessions, x # s
        PROVE  pc'[Expiry(x)] = pc[Expiry(x)]
    BY <1>6, <2>1, Kinds DEF Closes
  <2>2. SessionsEndOnce
    BY DEF BridgeInv
  <2> SUFFICES ASSUME NEW x \in Sessions
               PROVE  /\ session'[x].stage = "open" /\ ~draining => pc'[Expiry(x)] = "watch"
                      /\ session'[x].expirations <= 1
                      /\ session'[x].expirations = 1 => session'[x].terminal
                      /\ session'[x].terminal => session'[x].queue = 0
    BY DEF SessionsEndOnce
  <2>3. CASE x = s /\ r = session[s]
    BY <1>2, <1>4, <2>2, <2>3 DEF SessionsEndOnce
  <2>4. CASE x = s /\ r # session[s]
    <3>1. session[s].expirations = 0
      BY <2>4 DEF Left, BridgeInv, StageInv
    <3> QED
      BY <1>2, <1>4, <2>4, <3>1 DEF Left
  <2>5. CASE x # s
    BY <1>4, <2>1, <2>2, <2>5 DEF SessionsEndOnce
  <2> QED
    BY <2>3, <2>4, <2>5
<1>16. TrackedInv'
  BY <1>2, <1>4, <1>8, <1>10, TrackedStay
<1> QED
  BY <1>8, <1>9, <1>11, <1>12, <1>13, <1>14, <1>15, <1>16 DEF BridgeInv, PostsInv, PostsGoOn

LEMMA CloseBegins ==
    ASSUME BridgeInv, NEW t \in Tasks, NEW s \in Sessions,
           NEW r \in SessionRecord, NEW w \in [Posts -> WorkRecord],
           Closes(t, s, w), Left(s, r), UNCHANGED draining, StartClose(t, s, r, w)
    PROVE  BridgeInv'
<1>1. closing' \in Sessions \cup {None}
  BY TypeIs DEF Closes, BridgeInv
<1> QED
  BY <1>1, CloseQueues, CloseTakes

(* The session is closed as it stands. *)
LEMMA PlainClose ==
    ASSUME BridgeInv, NEW t \in Tasks, NEW s \in Sessions,
           t \in Posts => work[t].on = s /\ pc[t] = "qClose",
           t \notin Posts => t \in {Reload, Stream(s), Expiry(s)},
           t = Reload => closing' = s /\ pc[t] \in {"sweep", "qClose"},
           t # Reload => UNCHANGED closing,
           UNCHANGED draining, StartClose(t, s, session[s], work)
    PROVE  BridgeInv'
<1>1. session[s] \in SessionRecord /\ work \in [Posts -> WorkRecord]
  BY TypeIs DEF BridgeInv
<1>2. Closes(t, s, work)
  BY PostFacts, CancelContinues DEF Closes
<1>3. Left(s, session[s])
  BY DEF Left
<1> QED
  BY <1>1, <1>2, <1>3, CloseBegins

LEMMA ClosingSteps ==
    ASSUME BridgeInv,
           \/ \E t \in Tasks : CloseHanded(t)
           \/ \E s \in Sessions : StreamEnds(s)
           \/ CloseNext
    PROVE  BridgeInv'
<1>1. ASSUME NEW t \in Tasks, CloseHanded(t)
      PROVE  BridgeInv'
  <2> DEFINE s == Closing(t)
  <2>1. pc[t] = "qClose" /\ StartClose(t, s, session[s], work) /\ UNCHANGED <<closing, draining>>
    BY <1>1 DEF CloseHanded
  <2>2. s \in Sessions
    BY <2>1, ClosingExists DEF CleanupLabels
  <2>3. /\ t \in Posts => work[t].on = s
        /\ t = Reload => closing = s
        /\ t \notin Posts => t \in {Reload, Stream(s), Expiry(s)}
    BY Closings, Kinds
  <2> HIDE DEF s
  <2> QED
    BY <2>1, <2>2, <2>3, PlainClose
<1>2. ASSUME NEW s \in Sessions, StreamEnds(s)
      PROVE  BridgeInv'
  <2>1. StartClose(Stream(s), s, session[s], work) /\ UNCHANGED <<closing, draining>>
    BY <1>2 DEF StreamEnds
  <2> QED
    BY <2>1, Kinds, PlainClose
<1>3. CASE CloseNext
  <2>1. PICK s \in Sessions : closing' = s /\ StartClose(Reload, s, session[s], work)
    BY <1>3 DEF CloseNext
  <2>2. pc[Reload] = "sweep" /\ UNCHANGED draining
    BY <1>3 DEF CloseNext
  <2> QED
    BY <2>1, <2>2, Kinds, PlainClose
<1> QED
  BY <1>1, <1>2, <1>3

(* An expired session is open, and nobody holds its lock. *)
LEMMA ExpiryStarts ==
    ASSUME BridgeInv, NEW t \in Tasks, NEW s \in Sessions, NEW w \in [Posts -> WorkRecord],
           Closes(t, s, w), session[s].expired, ExpiresFor(t, s, w), UNCHANGED <<closing, draining>>
    PROVE  BridgeInv'
<1> DEFINE r == [Terminated(session[s]) EXCEPT !.expirations = @ + 1]
<1>1. session[s] \in SessionRecord /\ session[s].stage = "open"
  BY TypeIs DEF BridgeInv, StageInv
<1>2. Terminated(session[s]) \in SessionRecord
  BY <1>1, SessionChanges
<1>3. /\ r \in SessionRecord /\ r.expirations = Terminated(session[s]).expirations + 1
      /\ r.stage = Terminated(session[s]).stage /\ r.owned = Terminated(session[s]).owned
      /\ r.terminal = Terminated(session[s]).terminal /\ r.queue = Terminated(session[s]).queue
      /\ r.expired = Terminated(session[s]).expired
  BY <1>2 DEF SessionRecord
<1>4. Left(s, r)
  BY <1>1, <1>3, SessionChanges DEF Left
<1>5. StartClose(t, s, r, w)
  BY DEF ExpiresFor
<1> HIDE DEF r
<1> QED
  BY <1>3, <1>4, <1>5, CloseBegins

LEMMA ExpirySteps ==
    ASSUME BridgeInv,
           (\E s \in Sessions : Expire(s)) \/ (\E p \in Posts : PostExpired(p))
    PROVE  BridgeInv'
<1>1. ASSUME NEW s \in Sessions, Expire(s)
      PROVE  BridgeInv'
  <2>1. session[s].expired /\ ExpiresFor(Expiry(s), s, work) /\ UNCHANGED <<closing, draining>>
    BY <1>1 DEF Expire
  <2>2. work \in [Posts -> WorkRecord] /\ Closes(Expiry(s), s, work) /\ Expiry(s) \in Tasks
    BY <2>1, Kinds, TypeIs DEF Closes, BridgeInv
  <2> QED
    BY <2>1, <2>2, ExpiryStarts
<1>2. ASSUME NEW p \in Posts, PostExpired(p)
      PROVE  BridgeInv'
  <2>1. PICK s \in Sessions :
            /\ Addresses(p, s) /\ session[s].expired /\ UNCHANGED <<closing, draining>>
            /\ ExpiresFor(p, s, [CancelledOn(s, p) EXCEPT ![p] = NewPost(s)])
    BY <1>2 DEF PostExpired
  <2> DEFINE w == [CancelledOn(s, p) EXCEPT ![p] = NewPost(s)]
  <2>2. /\ w[p] = NewPost(s)
        /\ \A q \in Posts : q # p => w[q] \in {work[q], CancelWork(work[q])}
        /\ w \in [Posts -> WorkRecord]
    BY WorkTypes, TypeIs DEF CancelledOn, BridgeInv
  <2>3. ExpiresFor(p, s, w)
    BY <2>1
  <2> HIDE DEF w
  <2>4. /\ NewPost(s).on = s /\ NewPost(s).held /\ NewPost(s).setup = "none"
        /\ NewPost(s).response = "none" /\ NewPost(s).ctx = "none"
    BY DEF NewPost, NoWork
  <2>5. ~draining /\ session[s].stage = "open"
    BY <2>1 DEF Addresses
  <2>6. Sound(w[p], "qClose") /\ Continues(work[p], w[p])
    BY <2>2, <2>4, <2>5 DEF Sound, Sections, Handoffs, CleanupLabels, Continues, Alive
  <2>7. Closes(p, s, w) /\ p \in Tasks
    BY <2>1, <2>2, <2>4, <2>6, Kinds DEF Closes
  <2> QED
    BY <2>1, <2>2, <2>3, <2>7, ExpiryStarts
<1> QED
  BY <1>1, <1>2

-----------------------------------------------------------------------------
(* The rest of a cleanup. *)

(* The session x is left as it is, or nothing is left of it. *)
EndsAs(x, r) ==
    \/ r = session[x]
    \/ /\ WorkEnded(x) /\ Tracked(x) = {} /\ ~r.owned /\ r.queue = 0
       /\ r.stage = session[x].stage /\ r.terminal = session[x].terminal
       /\ r.expired = session[x].expired /\ r.expirations = session[x].expirations

LEMMA CleanupStep ==
    ASSUME BridgeInv, TypeOK', NEW t \in Tasks, pc[t] \in UnderLock, NEW label, Moves(t, label),
           PostsGoOn, LocksStayFree,
           \A x \in Sessions : x # Closing(t) => session'[x] = session[x],
           EndsAs(Closing(t), session'[Closing(t)]),
           \A q \in Posts : q # t => work'[q].on = work[q].on,
           label = "cUpstreams" /\ t \in Posts => work'[t].on = work[t].on,
           label = "cUpstreams" => WorkEnded(Closing(t)),
           label \in {"cUpstreams", "idle", "sweep", "done"},
           t = Reload => label \in {"sweep", "cUpstreams"},
           UNCHANGED <<closing, draining>>
    PROVE  BridgeInv'
<1> DEFINE s == Closing(t)
<1>1. s \in Sessions /\ session[s].stage = "closed"
  BY ClosingExists DEF BridgeInv, CleanupInv, UnderLock, CleanupLabels
<1>2. label = "cUpstreams" => Closing(t)' = s
  BY Kinds DEF Closing
<1>3. \A x \in Sessions :
          /\ session'[x].stage = session[x].stage /\ session'[x].terminal = session[x].terminal
          /\ session'[x].expired = session[x].expired
          /\ session'[x].expirations = session[x].expirations
          /\ session'[x].owned => session[x].owned
          /\ session'[x].owned = session[x].owned \/ (x = s /\ WorkEnded(x) /\ Tracked(x) = {})
          /\ session'[x].queue = session[x].queue \/ session'[x].queue = 0
          /\ ~session'[x].owned => session'[x].queue = 0
  BY DEF EndsAs, BridgeInv, QuietInv
<1> HIDE DEF s
<1>4. StageInv'
  <2>1. None \notin Sessions
    BY Kinds
  <2>2. ASSUME NEW x \in Sessions, session'[x].stage = "none", NEW q \in Posts
        PROVE  work'[q].on # x
    BY <1>3, <2>1, <2>2 DEF BridgeInv, StageInv, PostsGoOn, Continues
  <2> QED
    BY <1>1, <1>3, <2>2 DEF BridgeInv, StageInv, LocksStayFree
<1>5. QuietInv'
  <2>1. ASSUME NEW x \in Sessions, session'[x].terminal, NEW q \in Posts, work'[q].on = x
        PROVE  work'[q].response # "put"
    BY <1>3, <2>1 DEF BridgeInv, StageInv, QuietInv, PostsGoOn, Continues
  <2>2. ASSUME NEW x \in Sessions, ~session'[x].owned
        PROVE  session[x].stage # "open" /\ WorkEnded(x)
    BY <1>1, <1>3, <2>2 DEF BridgeInv, StageInv, QuietInv
  <2>3. ASSUME NEW x \in Sessions, ~session'[x].owned, NEW q \in Posts, work'[q].on = x
        PROVE  ~Alive(work'[q])
    BY <2>2, <2>3, Alives DEF PostsGoOn, Continues
  <2>4. \A x : WorkEnded(x)' <=> \A q \in Posts : work'[q].on = x => ~Alive(work'[q])
    BY DEF WorkEnded, SetupEnded, ResponseEnded, Alive
  <2> QED
    BY <1>3, <2>1, <2>3, <2>4 DEF QuietInv
<1>6. CleanupInv'
  <2>1. ClosedStay
    BY <1>3 DEF ClosedStay
  <2>2. label = "cUpstreams" => session'[Closing(t)'].stage = "closed"
    BY <1>1, <1>2, <1>3
  <2>3. label = "cUpstreams" => WorkEnded(Closing(t))'
    <3>1. \A q \in Posts : label = "cUpstreams" /\ work[q].on = s => ~Alive(work[q])
      BY Alives DEF s
    <3>2. \A q \in Posts : label = "cUpstreams" /\ work'[q].on = s => ~Alive(work'[q])
      BY <1>1, <3>1 DEF PostsGoOn, Continues
    <3> QED
      BY <1>2, <3>2 DEF WorkEnded, SetupEnded, ResponseEnded, Alive
  <2>4. \A u \in Tasks : u # t => pc'[u] \in {pc[u], "done"}
    BY DEF Moves
  <2>5. pc'[t] = label /\ (label \in UnderLock => label = "cUpstreams")
    BY DEF Moves, UnderLock
  <2>6. t = Reload => closing' \in Sessions
    BY <1>1, Closings DEF s
  <2> QED
    BY <2>1, <2>2, <2>3, <2>4, <2>5, <2>6, CleanupsStay
<1>7. RetireInv'
  <2>1. pc'[Reload] = pc[Reload] \/ {pc[Reload], pc'[Reload]} \subseteq {"sweep"} \cup CleanupLabels
    BY Kinds DEF Moves, UnderLock, CleanupLabels
  <2> QED
    BY <1>3, <2>1, RetirementStays
<1>8. SessionsEndOnce'
  <2>1. ASSUME NEW x \in Sessions, session[x].stage = "open"
        PROVE  pc'[Expiry(x)] = pc[Expiry(x)]
    <3>1. Expiry(x) # t
      BY <1>1, <2>1, Closings DEF s
    <3> QED
      BY <3>1, Kinds DEF Moves
  <2> QED
    BY <1>3, <2>1 DEF BridgeInv, SessionsEndOnce
<1>9. TrackedInv'
  BY <1>1, <1>3, TrackedStay
<1> QED
  BY <1>4, <1>5, <1>6, <1>7, <1>8, <1>9 DEF BridgeInv, PostsInv, PostsGoOn

LEMMA AwaitedIs ==
    ASSUME BridgeInv, NEW t \in Tasks, Awaited(t)
    PROVE  pc[t] \in UnderLock /\ WorkEnded(Closing(t))
BY DEF Awaited, BridgeInv, CleanupInv, UnderLock

LEMMA UpstreamCloses ==
    ASSUME BridgeInv, NEW t \in Tasks, CloseUpstream(t)
    PROVE  BridgeInv'
<1> DEFINE s == Closing(t)
<1>1. PICK p \in Tracked(s) : work' = [work EXCEPT ![p].ctx = "closed"]
  BY DEF CloseUpstream
<1>2. /\ Awaited(t) /\ Goto(t, "cUpstreams") /\ UNCHANGED <<session, lock, closing, draining>>
  BY DEF CloseUpstream
<1>3. /\ p \in Posts /\ work[p].on = s /\ work[p].ctx = "tracked"
      /\ work \in [Posts -> WorkRecord] /\ work[p] \in WorkRecord
  BY PostFacts DEF Tracked
<1> DEFINE w == [work[p] EXCEPT !.ctx = "closed"]
<1>4. /\ w \in WorkRecord /\ w.on = work[p].on /\ w.setup = work[p].setup
      /\ w.response = work[p].response /\ w.held = work[p].held /\ w.ctx = "closed"
  BY <1>3 DEF WorkRecord
<1>5. work' = [work EXCEPT ![p] = w]
  BY <1>1
<1> HIDE DEF w, s
<1>6. work' \in [Posts -> WorkRecord] /\ work'[p] = w /\ \A q \in Posts : q # p => work'[q] = work[q]
  BY <1>3, <1>4, <1>5
<1>7. pc[t] \in UnderLock /\ WorkEnded(Closing(t))
  BY <1>2, AwaitedIs
<1>8. p # t
  BY <1>3, <1>7, PostFacts DEF Sound, UnderLock, CleanupLabels
<1>9. Moves(t, "cUpstreams")
  BY <1>2, GotoMoves DEF BridgeInv
<1>10. PostsGoOn
  <2>1. ASSUME NEW q \in Posts, q # p, q # t
        PROVE  Sound(work'[q], pc'[q]) /\ Continues(work[q], work'[q])
    <3>1. work'[q] = work[q] /\ pc'[q] = pc[q]
      BY <1>6, <1>9, <2>1, Kinds DEF Moves
    <3> QED
      BY <3>1, PostFacts, CancelContinues
  <2>2. ASSUME NEW q \in Posts, q = t
        PROVE  Sound(work'[q], pc'[q]) /\ Continues(work[q], work'[q])
    <3>1. work'[q] = work[q] /\ pc'[q] = "cUpstreams" /\ pc[q] \in UnderLock
      BY <1>6, <1>7, <1>8, <1>9, <2>2 DEF Moves
    <3>2. Sound(work[q], "cUpstreams")
      BY <3>1, PostFacts DEF Sound, Sections, Handoffs, UnderLock, CleanupLabels
    <3> QED
      BY <3>1, <3>2, PostFacts, CancelContinues
  <2>3. Sound(w, pc[p]) /\ Continues(work[p], w)
    <3>1. pc[p] \in {"idle", "errorBody"} \cup Handoffs
      BY <1>3, PostFacts DEF Sound, Sections, Handoffs, CleanupLabels, PostLabels
    <3> QED
      BY <1>3, <1>4, <3>1, PostFacts DEF Sound, Sections, Handoffs, CleanupLabels, Continues, Alive
  <2>4. pc'[p] = pc[p]
    BY <1>3, <1>8, <1>9, Kinds DEF Moves
  <2> QED
    BY <1>6, <2>1, <2>2, <2>3, <2>4 DEF PostsGoOn
<1>11. TypeOK'
  <2>1. "cUpstreams" \in LabelsOf(t)
    BY Kinds DEF CleanupLabels
  <2>2. \A u \in Tasks : pc'[u] \in LabelsOf(u)
    BY <1>9, <2>1, TypeIs DEF Moves, BridgeInv
  <2> QED
    BY <1>2, <1>6, <1>9, <2>2, TypeIs
       DEF BridgeInv, TypeOK, Moves, SessionRecord, LockRecord, WorkRecord
<1>12. LocksStayFree
  BY <1>2 DEF LocksStayFree
<1>13. \A q \in Posts : work'[q].on = work[q].on
  BY <1>4, <1>6
<1>14. /\ \A x \in Sessions : session'[x] = session[x]
       /\ EndsAs(Closing(t), session'[Closing(t)])
  BY <1>2 DEF EndsAs
<1>15. UNCHANGED <<closing, draining>>
  BY <1>2
<1> QED
  BY <1>7, <1>9, <1>10, <1>11, <1>12, <1>13, <1>14, <1>15, CleanupStep

(* The cleanup ends, and a post gives its leases back. *)
LEMMA CleanupLeaves ==
    ASSUME BridgeInv, NEW t \in Tasks, pc[t] \in UnderLock,
           lock' = [lock EXCEPT ![Closing(t)] = Without(@, t)],
           work' = LeasesBack(work, t), Goto(t, AfterClose(t)),
           session' \in [Sessions -> SessionRecord],
           \A x \in Sessions : x # Closing(t) => session'[x] = session[x],
           EndsAs(Closing(t), session'[Closing(t)]),
           UNCHANGED <<closing, draining>>
    PROVE  BridgeInv'
<1>1. /\ work \in [Posts -> WorkRecord] /\ DOMAIN pc = Tasks
      /\ TypeOK /\ \A u \in Tasks : pc[u] \in LabelsOf(u)
  BY TypeIs DEF BridgeInv
<1>2. /\ work' \in [Posts -> WorkRecord]
      /\ \A q \in Posts : q # t => work'[q] = work[q]
      /\ t \in Posts => work'[t] = Over(work[t])
  BY <1>1, WorkTypes DEF LeasesBack
<1>3. /\ AfterClose(t) \in {"idle", "sweep", "done"} /\ AfterClose(t) \in LabelsOf(t)
      /\ t = Reload => AfterClose(t) = "sweep"
      /\ t \in Posts => AfterClose(t) = "idle"
  BY Kinds DEF AfterClose, PostLabels, ReloadLabels, StreamLabels, ExpiryLabels
<1> DEFINE label == AfterClose(t)
<1> HIDE DEF label
<1>4. Moves(t, label)
  BY <1>1, GotoMoves DEF label
<1>5. lock' \in [Sessions -> LockRecord] /\ LocksStayFree
  BY <1>1, LockChanges
<1>6. PostsGoOn
  <2>1. ASSUME NEW q \in Posts, q # t
        PROVE  Sound(work'[q], pc'[q]) /\ Continues(work[q], work'[q])
    <3>1. work'[q] = work[q] /\ pc'[q] = pc[q]
      BY <1>2, <1>4, <2>1, Kinds DEF Moves
    <3> QED
      BY <3>1, PostFacts, CancelContinues
  <2>2. ASSUME NEW q \in Posts, q = t
        PROVE  Sound(work'[q], pc'[q]) /\ Continues(work[q], work'[q])
    <3>1. work'[q] = Over(work[q]) /\ pc'[q] = "idle"
      BY <1>2, <1>3, <1>4, <2>2 DEF Moves, label
    <3>2. work[q].ctx = "none"
      BY <2>2, PostFacts DEF Sound, UnderLock, CleanupLabels
    <3>3. Sound(Over(work[q]), "idle")
      BY <3>2, PostFacts, WorkChanges DEF Sound, Sections, Handoffs, CleanupLabels
    <3> QED
      BY <3>1, <3>3, PostFacts, OverContinues
  <2> QED
    BY <2>1, <2>2 DEF PostsGoOn
<1>7. TypeOK'
  <2>1. \A u \in Tasks : pc'[u] \in LabelsOf(u)
    BY <1>1, <1>3, <1>4 DEF Moves, label
  <2>2. closing' \in Sessions \cup {None} /\ draining' \in BOOLEAN
    BY <1>1, TypeIs
  <2> QED
    BY <1>2, <1>4, <1>5, <2>1, <2>2 DEF TypeOK, Moves, SessionRecord, LockRecord, WorkRecord
<1>8. \A q \in Posts : q # t => work'[q].on = work[q].on
  BY <1>2
<1>9. label \in {"idle", "sweep", "done"} /\ (t = Reload => label = "sweep")
  BY <1>3 DEF label
<1> QED
  BY <1>4, <1>5, <1>6, <1>7, <1>8, <1>9, CleanupStep

LEMMA CleanupSteps ==
    ASSUME BridgeInv, NEW t \in Tasks, CleaningUp(t)
    PROVE  BridgeInv'
<1>1. CASE CloseHanded(t)
  BY <1>1, ClosingSteps
<1>2. CASE CloseUpstream(t)
  BY <1>2, UpstreamCloses
<1>3. CASE CloseEnds(t)
  <2> DEFINE s == Closing(t)
             r == [session[s] EXCEPT !.queue = 0, !.owned = FALSE]
  <2>1. pc[t] \in UnderLock /\ WorkEnded(s)
    BY <1>3, AwaitedIs DEF CloseEnds
  <2>2. s \in Sessions
    BY <2>1, ClosingExists DEF UnderLock, CleanupLabels
  <2>3. session' = [session EXCEPT ![s] = r]
    BY <1>3 DEF CloseEnds
  <2>4. session[s] \in SessionRecord
    BY <2>2, TypeIs DEF BridgeInv
  <2>5. /\ r \in SessionRecord /\ ~r.owned /\ r.queue = 0
        /\ r.stage = session[s].stage /\ r.terminal = session[s].terminal
        /\ r.expired = session[s].expired /\ r.expirations = session[s].expirations
    <3>1. 0 \in 0 .. Capacity
      BY BridgeBounds
    <3> HIDE DEF s
    <3> QED
      BY <2>4, <3>1 DEF SessionRecord
  <2>6. EndsAs(s, r)
    BY <1>3, <2>1, <2>5 DEF CloseEnds, EndsAs
  <2> HIDE DEF r
  <2>7. /\ session' \in [Sessions -> SessionRecord] /\ session'[s] = r
        /\ \A x \in Sessions : x # s => session'[x] = session[x]
    BY <2>2, <2>3, <2>5, SessionBecomes DEF BridgeInv
  <2> QED
    BY <1>3, <2>1, <2>6, <2>7, CleanupLeaves DEF CloseEnds
<1>4. CASE CloseAborted(t)
  <2>1. pc[t] \in UnderLock /\ session' \in [Sessions -> SessionRecord]
        /\ UNCHANGED session
    BY <1>4, SameSessions DEF CloseAborted, UnderLock, BridgeInv
  <2> QED
    BY <1>4, <2>1, CleanupLeaves DEF CloseAborted, EndsAs
<1> QED
  BY <1>1, <1>2, <1>3, <1>4 DEF CleaningUp

-----------------------------------------------------------------------------
(* A response that fails closes its session. *)

LEMMA FailureStep ==
    ASSUME BridgeInv, NEW p \in Posts, ResponseFails(p)
    PROVE  BridgeInv'
<1> DEFINE s == work[p].on
           r == Terminated(session[s])
           w == [CancelledOn(s, p) EXCEPT ![p].response = "closing", ![p].ctx = "closed"]
<1>1. work[p].response \in {"reading", "put"} /\ UNCHANGED <<lock, closing, draining>>
  BY DEF ResponseFails
<1>2. /\ session' = [session EXCEPT ![s] = r]
      /\ work' = w
      /\ pc' = ExpiryCancelled(p, s)
  BY DEF ResponseFails
<1>3. /\ s \in Sessions /\ work[p].held /\ work[p].setup = "entered"
      /\ pc[p] \in {"idle"} \cup Handoffs
  BY <1>1, Responding
<1>4. session[s] \in SessionRecord /\ session \in [Sessions -> SessionRecord] /\ TypeOK
  BY <1>3, TypeIs DEF BridgeInv
<1>5. /\ w \in [Posts -> WorkRecord]
      /\ w[p].on = s /\ w[p].setup = "entered" /\ w[p].held = work[p].held
      /\ w[p].response = "closing" /\ w[p].ctx = "closed"
      /\ \A q \in Posts : q # p => w[q] = IF work[q].on = s THEN CancelWork(work[q]) ELSE work[q]
  <2>1. CancelledOn(s, p) \in [Posts -> WorkRecord] /\ CancelledOn(s, p)[p] = work[p]
    BY WorkTypes, PostFacts DEF CancelledOn
  <2>2. [work[p] EXCEPT !.response = "closing", !.ctx = "closed"] \in WorkRecord
    BY PostFacts DEF WorkRecord, Responses
  <2>3. \A q \in Posts : q # p => w[q] = CancelledOn(s, p)[q]
    BY <2>1
  <2>4. w[p] = [work[p] EXCEPT !.response = "closing", !.ctx = "closed"]
    BY <2>1
  <2>5. w \in [Posts -> WorkRecord]
    BY <2>1, <2>2
  <2> QED
    BY <1>3, <2>2, <2>3, <2>4, <2>5, PostFacts DEF CancelledOn, WorkRecord
<1>6. /\ r \in SessionRecord /\ r.stage = "closed" /\ r.owned = session[s].owned
      /\ r.expirations = session[s].expirations
      /\ session[s].stage = "closed" => r = session[s]
      /\ session[s].stage # "closed" => r.terminal /\ r.queue = 0 /\ ~r.expired
  BY <1>4, SessionChanges
<1> HIDE DEF r, w
<1>7. /\ session' \in [Sessions -> SessionRecord]
      /\ session'[s] = r /\ \A x \in Sessions : x # s => session'[x] = session[x]
  BY <1>2, <1>3, <1>4, <1>6, SessionBecomes
<1>8. /\ DOMAIN pc' = Tasks
      /\ \A u \in Tasks : pc'[u] \in {pc[u], "done"}
      /\ \A u \in Tasks : u # Expiry(s) => pc'[u] = pc[u]
  <2>1. DOMAIN pc = Tasks
    BY <1>4, TypeIs
  <2> QED
    BY <1>2, <2>1 DEF ExpiryCancelled
<1>9. PostsGoOn
  <2>1. ASSUME NEW q \in Posts
        PROVE  pc'[q] = pc[q]
    BY <1>3, <1>8, Kinds
  <2>2. ASSUME NEW q \in Posts, q # p
        PROVE  Sound(work'[q], pc'[q]) /\ Continues(work[q], work'[q])
    <3>1. work'[q] \in {work[q], CancelWork(work[q])}
      BY <1>2, <1>5, <2>2
    <3> QED
      BY <2>1, <3>1, PostFacts, SoundWhenCancelled, CancelContinues
  <2>3. Sound(w[p], pc[p]) /\ Continues(work[p], w[p])
    BY <1>1, <1>3, <1>5, PostFacts DEF Sound, Sections, Handoffs, CleanupLabels, Continues, Alive
  <2> QED
    BY <1>2, <2>1, <2>2, <2>3 DEF PostsGoOn
<1>10. \A q \in Posts : work'[q].on = work[q].on
  BY <1>2, <1>5, PostFacts, WorkChanges
<1>11. TypeOK'
  <2>1. \A u \in Tasks : pc'[u] \in LabelsOf(u)
    BY <1>3, <1>4, <1>8, Kinds, TypeIs DEF ExpiryLabels
  <2> QED
    BY <1>1, <1>2, <1>4, <1>5, <1>7, <1>8, <2>1, TypeIs DEF TypeOK, SessionRecord, LockRecord, WorkRecord
<1> HIDE DEF s
<1>12. StageInv'
  <2>1. ASSUME NEW x \in Sessions, x # s
        PROVE  /\ lock'[x].owner # None => session'[x].stage = "closed"
               /\ session'[x].expired => session'[x].stage = "open"
               /\ session'[x].terminal => session'[x].stage = "closed"
               /\ session'[x].expirations # 0 => session'[x].stage = "closed"
               /\ session'[x].stage = "open" => session'[x].owned
               /\ session'[x].stage = "none" => \A q \in Posts : work'[q].on # x
    BY <1>1, <1>7, <1>10, <2>1 DEF BridgeInv, StageInv
  <2>2. ~r.expired
    BY <1>3, <1>6 DEF BridgeInv, StageInv
  <2> QED
    BY <1>6, <1>7, <2>1, <2>2 DEF StageInv
<1>13. QuietInv'
  <2>1. ASSUME NEW x \in Sessions, session'[x].terminal, NEW q \in Posts, work'[q].on = x
        PROVE  work'[q].response # "put"
    <3>1. CASE x = s /\ q = p
      BY <1>2, <1>5, <3>1
    <3>2. CASE x = s /\ q # p
      BY <1>2, <1>5, <1>10, <2>1, <3>2, PostFacts, WorkChanges
    <3>3. CASE x # s
      BY <1>7, <1>9, <1>10, <2>1, <3>3 DEF BridgeInv, StageInv, QuietInv, PostsGoOn, Continues
    <3> QED
      BY <3>1, <3>2, <3>3
  <2>2. ASSUME NEW x \in Sessions, ~session'[x].owned
        PROVE  ~session[x].owned /\ session'[x].queue = 0
    BY <1>6, <1>7, <2>2 DEF BridgeInv, QuietInv
  <2>3. ASSUME NEW x \in Sessions, ~session'[x].owned, NEW q \in Posts, work'[q].on = x
        PROVE  ~Alive(work'[q])
    BY <1>9, <2>2, <2>3, Alives DEF BridgeInv, StageInv, QuietInv, PostsGoOn, Continues
  <2>4. \A x : WorkEnded(x)' <=> \A q \in Posts : work'[q].on = x => ~Alive(work'[q])
    BY DEF WorkEnded, SetupEnded, ResponseEnded, Alive
  <2> QED
    BY <2>1, <2>2, <2>3, <2>4 DEF QuietInv
<1>14. CleanupInv'
  <2>1. ClosedStay
    BY <1>6, <1>7 DEF ClosedStay
  <2>2. p \in Tasks /\ p # Reload /\ p # Expiry(s)
    BY <1>3, Kinds
  <2>3. pc'[p] \notin UnderLock /\ pc'[p] # "cUpstreams"
    BY <1>3, <1>8, <2>2 DEF UnderLock, Handoffs
  <2>4. closing' = closing
    BY <1>1
  <2> QED
    BY <1>8, <1>9, <1>10, <2>1, <2>2, <2>3, <2>4, CleanupsStay
<1>15. RetireInv'
  <2>1. pc'[Reload] = pc[Reload]
    BY <1>3, <1>8, Kinds
  <2>2. \A x \in Sessions : session'[x].owned => session[x].owned
    BY <1>6, <1>7
  <2>3. UNCHANGED draining
    BY <1>1
  <2> QED
    BY <1>9, <2>1, <2>2, <2>3, RetirementStays
<1>16. SessionsEndOnce'
  <2>1. ASSUME NEW x \in Sessions, x # s
        PROVE  pc'[Expiry(x)] = pc[Expiry(x)]
    BY <1>3, <1>8, <2>1, Kinds
  <2>2. SessionsEndOnce
    BY DEF BridgeInv
  <2> SUFFICES ASSUME NEW x \in Sessions
               PROVE  /\ session'[x].stage = "open" /\ ~draining => pc'[Expiry(x)] = "watch"
                      /\ session'[x].expirations <= 1
                      /\ session'[x].expirations = 1 => session'[x].terminal
                      /\ session'[x].terminal => session'[x].queue = 0
    BY <1>1 DEF SessionsEndOnce
  <2>3. CASE x = s
    BY <1>6, <1>7, <2>2, <2>3 DEF SessionsEndOnce
  <2>4. CASE x # s
    BY <1>7, <2>1, <2>2, <2>4 DEF SessionsEndOnce
  <2> QED
    BY <2>3, <2>4
<1>17. TrackedInv'
  BY <1>6, <1>7, <1>9, TrackedStay
<1> QED
  BY <1>9, <1>11, <1>12, <1>13, <1>14, <1>15, <1>16, <1>17 DEF BridgeInv, PostsInv, PostsGoOn

-----------------------------------------------------------------------------
(* The retirement. *)

LEMMA RetirementBegins ==
    ASSUME BridgeInv, BeginRetirement
    PROVE  BridgeInv'
<1>1. /\ work \in [Posts -> WorkRecord] /\ lock \in [Sessions -> LockRecord]
      /\ DOMAIN pc = Tasks /\ \A t \in Tasks : pc[t] \in LabelsOf(t)
      /\ TypeOK
  BY TypeIs DEF BridgeInv
<1>2. /\ pc[Reload] = "watch" /\ draining' = TRUE /\ UNCHANGED <<session, closing>>
      /\ work' = [p \in Posts |-> CancelWork(work[p])]
  BY DEF BeginRetirement
<1>3. /\ DOMAIN pc' = Tasks /\ pc'[Reload] = "dTasks"
      /\ \A t \in Tasks : t # Reload /\ (\A s \in Sessions : t # Expiry(s)) => pc'[t] = pc[t]
      /\ \A s \in Sessions : pc'[Expiry(s)] \in {pc[Expiry(s)], "done", "cAbort"}
      /\ \A s \in Sessions : pc'[Expiry(s)] = "cAbort" => pc[Expiry(s)] \in {"cTasks", "cAbort"}
      /\ \A s \in Sessions : pc'[Expiry(s)] # "cUpstreams"
  <2>1. pc' = [t \in Tasks |->
                IF t = Reload THEN "dTasks"
                ELSE IF t \notin {Expiry(s) : s \in Sessions} THEN pc[t]
                ELSE IF pc[t] = "cTasks" THEN "cAbort"
                ELSE IF pc[t] \in {"watch", "qClose", "cUpstreams"} THEN "done"
                ELSE pc[t]]
    BY DEF BeginRetirement
  <2>2. \A s \in Sessions : Expiry(s) \in Tasks /\ Expiry(s) # Reload /\ Reload \in Tasks
    BY Kinds
  <2>3. Reload \in Tasks
    BY Kinds
  <2>4. ASSUME NEW s \in Sessions
        PROVE  pc'[Expiry(s)] = IF pc[Expiry(s)] = "cTasks" THEN "cAbort"
                  ELSE IF pc[Expiry(s)] \in {"watch", "qClose", "cUpstreams"} THEN "done"
                  ELSE pc[Expiry(s)]
    BY <2>1, <2>2
  <2>5. \A t \in Tasks : t # Reload /\ (\A s \in Sessions : t # Expiry(s)) => pc'[t] = pc[t]
    BY <2>1
  <2>6. DOMAIN pc' = Tasks /\ pc'[Reload] = "dTasks"
    BY <2>1, <2>3
  <2> QED
    BY <2>4, <2>5, <2>6
<1>4. \A p \in Posts : pc'[p] = pc[p] /\ work'[p] = CancelWork(work[p])
  BY <1>2, <1>3, Kinds
<1>5. lock' \in [Sessions -> LockRecord] /\ LocksStayFree
  <2>1. ASSUME NEW s \in Sessions
        PROVE  /\ Without(lock[s], Expiry(s)) \in LockRecord
               /\ Without(lock[s], Expiry(s)).owner # None => lock[s].owner # None
    BY <1>1, Kinds, LockTypes
  <2> QED
    BY <1>1, <2>1 DEF BeginRetirement, LocksStayFree
<1>6. PostsGoOn
  BY <1>4, PostFacts, SoundWhenCancelled, CancelContinues DEF PostsGoOn
<1>7. TypeOK'
  <2>1. \A t \in Tasks : pc'[t] \in LabelsOf(t)
    <3>1. ASSUME NEW s \in Sessions
          PROVE  pc'[Expiry(s)] \in LabelsOf(Expiry(s))
      BY <1>1, <1>3, Kinds DEF ExpiryLabels, CleanupLabels
    <3>2. pc'[Reload] \in LabelsOf(Reload)
      BY <1>3, Kinds DEF ReloadLabels
    <3> QED
      BY <1>1, <1>3, <3>1, <3>2
  <2>2. work' \in [Posts -> WorkRecord]
    BY <1>1, <1>2, WorkTypes
  <2> QED
    BY <1>1, <1>2, <1>3, <1>5, <2>1, <2>2, TypeIs
       DEF TypeOK, SessionRecord, LockRecord, WorkRecord
<1>8. StageInv' /\ QuietInv' /\ TrackedInv'
  BY <1>2, <1>5, <1>6, SameSessions, StagesStay DEF BridgeInv
<1>9. CleanupInv'
  <2>1. pc'[Reload] \notin CleanupLabels
    BY <1>3 DEF CleanupLabels
  <2>2. \A p \in Posts : work'[p].on = work[p].on
    BY <1>4, PostFacts, WorkChanges
  <2>3. ASSUME NEW t \in Tasks, pc'[t] \in UnderLock
        PROVE  /\ session'[Closing(t)'].stage = "closed"
               /\ pc'[t] = "cUpstreams" => WorkEnded(Closing(t))'
    <3>1. /\ pc[t] \in UnderLock /\ t # Reload
          /\ pc'[t] = "cUpstreams" => pc[t] = "cUpstreams"
      BY <1>3, <2>3 DEF UnderLock
    <3>2. Closing(t)' = Closing(t)
      BY <2>2, <3>1 DEF Closing
    <3>3. /\ session[Closing(t)].stage = "closed"
          /\ pc[t] = "cUpstreams" => WorkEnded(Closing(t))
      BY <3>1 DEF BridgeInv, CleanupInv
    <3> DEFINE s == Closing(t)
    <3>4. \A q \in Posts : pc[t] = "cUpstreams" /\ work[q].on = s => ~Alive(work[q])
      BY <3>3, Alives
    <3>5. \A q \in Posts : pc[t] = "cUpstreams" /\ work'[q].on = s => ~Alive(work'[q])
      BY <1>4, <2>2, <3>4, PostFacts, WorkChanges
    <3>6. pc[t] = "cUpstreams" => WorkEnded(Closing(t))'
      BY <3>2, <3>5 DEF WorkEnded, SetupEnded, ResponseEnded, Alive
    <3> QED
      BY <1>2, <3>1, <3>2, <3>3, <3>6
  <2> QED
    BY <2>1, <2>3 DEF CleanupInv, UnderLock
<1>10. RetireInv'
  BY <1>2, <1>3 DEF RetireInv, PastTasks, PastLeases, CleanupLabels
<1>11. SessionsEndOnce'
  BY <1>2 DEF BridgeInv, SessionsEndOnce
<1> QED
  BY <1>4, <1>6, <1>7, <1>8, <1>9, <1>10, <1>11 DEF BridgeInv, PostsInv, PostsGoOn

(* Whatever only moves Reload, and not into a cleanup. *)
LEMMA ReloadMoves ==
    ASSUME BridgeInv, NEW label \in ReloadLabels, Goto(Reload, label),
           UNCHANGED <<session, lock, work, closing, draining>>,
           RetireInv'
    PROVE  BridgeInv'
<1>1. /\ Reload \in Tasks /\ TypeOK /\ label \notin CleanupLabels
      /\ label \in LabelsOf(Reload)
  BY Kinds DEF BridgeInv, ReloadLabels, CleanupLabels
<1>2. Moves(Reload, label)
  BY <1>1, GotoMoves
<1>3. PostsGoOn
  BY <1>2, Kinds, PostsUntouched DEF Moves
<1>4. lock' \in [Sessions -> LockRecord] /\ LocksStayFree
  BY <1>1, LockChanges
<1>5. StageInv' /\ QuietInv' /\ TrackedInv'
  BY <1>1, <1>3, <1>4, SameSessions, StagesStay
<1>6. TypeOK'
  <2>1. \A t \in Tasks : pc'[t] \in LabelsOf(t)
    BY <1>1, <1>2, TypeIs DEF Moves
  <2> QED
    BY <1>1, <1>2, <2>1, TypeIs DEF TypeOK, Moves, SessionRecord, LockRecord, WorkRecord
<1>7. CleanupInv'
  <2>1. pc'[Reload] \notin CleanupLabels /\ pc'[Reload] \notin UnderLock
    BY <1>1, <1>2 DEF Moves, UnderLock, CleanupLabels
  <2>2. ClosedStay
    BY DEF ClosedStay
  <2>3. \A u \in Tasks : u # Reload => pc'[u] \in {pc[u], "done"}
    BY <1>2 DEF Moves
  <2> QED
    BY <1>1, <1>3, <2>1, <2>2, <2>3, CleanupsStay DEF UnderLock
<1>8. SessionsEndOnce'
  <2>1. \A s \in Sessions : pc'[Expiry(s)] = pc[Expiry(s)]
    BY <1>2, Kinds DEF Moves
  <2> QED
    BY <2>1 DEF BridgeInv, SessionsEndOnce
<1> QED
  BY <1>3, <1>5, <1>6, <1>7, <1>8 DEF BridgeInv, PostsInv, PostsGoOn

LEMMA RetirementSteps ==
    ASSUME BridgeInv, TasksDrained \/ LeasesDrained \/ Publish
    PROVE  BridgeInv'
<1>1. PICK label \in ReloadLabels :
         /\ Goto(Reload, label)
         /\ \/ pc[Reload] = "dTasks" /\ label = "dWait"
               /\ \A p \in Posts : SetupEnded(p) /\ ResponseEnded(p)
            \/ pc[Reload] = "dWait" /\ label = "sweep" /\ \A p \in Posts : ~work[p].held
            \/ pc[Reload] = "sweep" /\ label = "done" /\ \A s \in Sessions : ~session[s].owned
  BY DEF TasksDrained, LeasesDrained, Publish, ReloadLabels
<1>2. UNCHANGED <<session, lock, work, closing, draining>>
  BY DEF TasksDrained, LeasesDrained, Publish
<1>3. pc'[Reload] = label
  BY <1>1, Kinds, GotoMoves DEF BridgeInv, Moves
<1>4. \A p \in Posts : (SetupEnded(p) /\ ResponseEnded(p))' <=> SetupEnded(p) /\ ResponseEnded(p)
  BY <1>2 DEF SetupEnded, ResponseEnded
<1>5. RetireInv'
  BY <1>1, <1>2, <1>3, <1>4 DEF BridgeInv, RetireInv, PastTasks, PastLeases, CleanupLabels
<1> QED
  BY <1>1, <1>2, <1>5, ReloadMoves

-----------------------------------------------------------------------------
(* The invariant, and the theorems it gives. *)

LEMMA BridgeStart == Init => BridgeInv
<1> SUFFICES ASSUME Init
             PROVE  BridgeInv
  OBVIOUS
<1>1. /\ DOMAIN pc = Tasks /\ pc[Reload] = "watch"
      /\ \A p \in Posts : pc[p] = "idle" /\ work[p] = NoWork
      /\ \A s \in Sessions : pc[Stream(s)] = "none" /\ pc[Expiry(s)] = "none"
      /\ \A t \in Tasks : pc[t] \in {"idle", "watch", "none"}
  BY Kinds DEF Init
<1>2. /\ \A s \in Sessions :
             /\ session[s].stage = "none" /\ ~session[s].owned /\ ~session[s].terminal
             /\ session[s].queue = 0 /\ ~session[s].expired /\ session[s].expirations = 0
             /\ lock[s].owner = None
      /\ closing = None /\ draining = FALSE
  BY DEF Init, Free
<1>3. \A p \in Posts :
         /\ ~work[p].held /\ work[p].on = None /\ work[p].setup = "none"
         /\ work[p].response = "none" /\ work[p].ctx = "none"
  BY <1>1 DEF NoWork
<1>4. TypeOK
  <2>1. session \in [Sessions -> SessionRecord]
    <3>1. 0 \in 0 .. Capacity
      BY BridgeBounds
    <3> QED
      BY <3>1 DEF Init, SessionRecord
  <2>2. lock \in [Sessions -> LockRecord]
    <3>1. <<>> \in Seq(Tasks)
      OBVIOUS
    <3> QED
      BY <3>1 DEF Init, Free, LockRecord
  <2>3. work \in [Posts -> WorkRecord]
    BY WorkTypes DEF Init
  <2>4. \A t \in Tasks : pc[t] \in LabelsOf(t)
    BY <1>1, Kinds DEF PostLabels, ReloadLabels, StreamLabels, ExpiryLabels
  <2> QED
    BY <1>1, <1>2, <2>1, <2>2, <2>3, <2>4, TypeIs
<1>5. PostsInv
  BY <1>1, <1>3 DEF PostsInv, Sound, Sections, Handoffs, CleanupLabels
<1>6. StageInv
  BY <1>2, <1>3, Kinds DEF StageInv
<1>7. QuietInv
  BY <1>2, <1>3, Alives DEF QuietInv, Alive
<1>8. CleanupInv
  BY <1>1 DEF CleanupInv, CleanupLabels, UnderLock
<1>9. RetireInv
  BY <1>1, <1>2 DEF RetireInv, PastTasks, PastLeases, CleanupLabels
<1>10. SessionsEndOnce
  BY <1>2 DEF SessionsEndOnce
<1>11. TrackedInv
  BY <1>3 DEF TrackedInv
<1> QED
  BY <1>4, <1>5, <1>6, <1>7, <1>8, <1>9, <1>10, <1>11 DEF BridgeInv

LEMMA BridgeStutters ==
    ASSUME BridgeInv, UNCHANGED vars
    PROVE  BridgeInv'
<1>1. UNCHANGED <<session, lock, work, pc, closing, draining>>
  BY DEF vars
<1>2. TypeOK' /\ PostsInv' /\ StageInv' /\ TrackedInv' /\ SessionsEndOnce'
  BY <1>1 DEF BridgeInv, TypeOK, PostsInv, StageInv, TrackedInv, SessionsEndOnce
<1>3. /\ \A p : SetupEnded(p)' = SetupEnded(p) /\ ResponseEnded(p)' = ResponseEnded(p)
      /\ \A t : Closing(t)' = Closing(t)
  BY <1>1 DEF SetupEnded, ResponseEnded, Closing
<1>4. \A s : WorkEnded(s)' = WorkEnded(s)
  BY <1>1 DEF WorkEnded, SetupEnded, ResponseEnded
<1>5. QuietInv' /\ CleanupInv' /\ RetireInv'
  <2>1. QuietInv'
    BY <1>1, <1>4 DEF BridgeInv, QuietInv
  <2>2. CleanupInv'
    BY <1>1 DEF BridgeInv, CleanupInv, Closing, WorkEnded, SetupEnded, ResponseEnded
  <2>3. RetireInv'
    BY <1>1, <1>3 DEF BridgeInv, RetireInv
  <2> QED
    BY <2>1, <2>2, <2>3
<1> QED
  BY <1>2, <1>5 DEF BridgeInv

LEMMA BridgeNext == BridgeInv /\ [Next]_vars => BridgeInv'
<1> SUFFICES ASSUME BridgeInv, [Next]_vars
             PROVE  BridgeInv'
  OBVIOUS
<1>1. ASSUME NEW s \in Sessions,
             \/ OpenSession(s) \/ StreamStep(s) \/ StreamSent(s) \/ Disconnect(s)
             \/ StreamCancelledAgain(s) \/ TimePasses(s) \/ ExpiryStep(s)
      PROVE  BridgeInv'
  <2>1. Stream(s) \in Tasks /\ Expiry(s) \in Tasks
    BY Kinds
  <2>2. CASE OpenSession(s)
    BY <2>2, OpeningStep
  <2>3. CASE StreamStep(s)
    BY <2>1, <2>3, StreamSteps, DeliveryStep, ClosingSteps, CleanupSteps DEF StreamStep
  <2>4. CASE StreamSent(s) \/ Disconnect(s) \/ StreamCancelledAgain(s)
    BY <2>4, StreamSteps
  <2>5. CASE TimePasses(s)
    BY <2>5, TimeStep
  <2>6. CASE ExpiryStep(s)
    BY <2>1, <2>6, ExpirySteps, CleanupSteps DEF ExpiryStep
  <2> QED
    BY <1>1, <2>2, <2>3, <2>4, <2>5, <2>6
<1>2. ASSUME NEW p \in Posts,
             \/ PostArrives(p) \/ PostExpired(p) \/ PostStep(p) \/ SetupStep(p)
             \/ ResponseStep(p) \/ CancelPost(p)
      PROVE  BridgeInv'
  <2>1. p \in Tasks
    BY Kinds
  <2>2. CASE PostArrives(p)
    BY <2>2, ArrivalStep
  <2>3. CASE PostExpired(p)
    BY <2>3, ExpirySteps
  <2>4. CASE PostFails(p) \/ PostEnds(p) \/ LateAnswered(p) \/ AbortAbandoned(p)
    BY <2>4, PostEndings
  <2>5. CASE PostRejected(p) \/ ErrorRead(p) \/ PostKeepsWork(p) \/ AbortEnds(p)
    BY <2>5, PostClosings
  <2>6. CASE PostWaits(p) \/ LateWaits(p) \/ CancelCleanup(p) \/ CancelAbort(p)
    BY <2>6, PostWaitings
  <2>7. CASE PostReadsError(p) \/ PostPublishes(p)
    BY <2>7, PostGoesOn
  <2>8. CASE PostAccepted(p)
    BY <2>8, PostAnswers
  <2>9. CASE CleaningUp(p)
    BY <2>1, <2>9, CleanupSteps
  <2>10. CASE SetupStep(p)
    BY <2>10, SetupSteps
  <2>11. CASE ResponseStarts(p) \/ ResponseNeverStarts(p) \/ EnqueueWaits(p) \/ ResponseEnds(p)
    BY <2>11, ResponseSteps
  <2>12. CASE Enqueue(p)
    BY <2>12, EnqueueStep
  <2>13. CASE ResponseFails(p)
    BY <2>13, FailureStep
  <2>14. CASE ResponseCompletes(p)
    BY <2>14, CompletionStep
  <2>15. CASE CancelWaiting(p)
    BY <2>15, PostCancels
  <2>16. CASE CancelEnding(p)
    BY <2>16, PostEndings, PostClosings
  <2>17. CASE CancelLate(p)
    BY <2>17, PostEndings
  <2> QED
    BY <1>2, <2>2, <2>3, <2>4, <2>5, <2>6, <2>7, <2>8, <2>9, <2>10, <2>11, <2>12, <2>13, <2>14,
       <2>15, <2>16, <2>17 DEF PostStep, ResponseStep, CancelPost
<1>3. CASE BeginRetirement
  BY <1>3, RetirementBegins
<1>4. CASE RetirementStep
  BY <1>4, Kinds, RetirementSteps, ClosingSteps, CleanupSteps DEF RetirementStep
<1>5. CASE UNCHANGED vars
  BY <1>5, BridgeStutters
<1> QED
  BY <1>1, <1>2, <1>3, <1>4, <1>5 DEF Next, PostRefused

LEMMA BridgeInvariant == Spec => []BridgeInv
BY BridgeStart, BridgeNext, PTL DEF Spec

(* The session table, the cleanup locks and their waiters, what each post  *)
(* has set up and the await of each task keep their types: a queue never   *)
(* holds more than queue_capacity messages.                                *)
THEOREM TypeCorrect == Spec => []TypeOK
<1>1. BridgeInv => TypeOK
  BY DEF BridgeInv
<1> QED
  BY <1>1, BridgeInvariant, PTL

(* The leases that handle_post or process_response hold have an owner that *)
(* will release them, whatever is closed, expires, retires or is cancelled *)
(* in between.                                                             *)
THEOREM LeasesOwned == Spec => []LeasesHaveOwners
<1>1. BridgeInv => LeasesHaveOwners
  <2> SUFFICES ASSUME BridgeInv, NEW p \in Posts, work[p].held, pc[p] = "idle"
               PROVE  Entered(p) /\ ~ResponseEnded(p)
    BY DEF LeasesHaveOwners
  <2> QED
    BY PostFacts DEF Sound, Entered, ResponseEnded
<1> QED
  BY <1>1, BridgeInvariant, PTL

(* An upstream response is open only under its request's leases.  This is  *)
(* for posts that are not cancelled after their setup has succeeded and    *)
(* before they go on, nor a second time while a cancelled handoff waits    *)
(* for its response: the two findings are about those.                     *)
THEOREM UpstreamsUnderLease ==
    Environment \cap {"late-cancel", "cancel-abort"} = {} => (Spec => []OpenUnderLease)
<1> SUFFICES ASSUME Environment \cap {"late-cancel", "cancel-abort"} = {}
             PROVE  Spec => []OpenUnderLease
  OBVIOUS
<1>1. BridgeInv => OpenUnderLease
  <2> SUFFICES ASSUME BridgeInv, NEW p \in Posts, work[p].ctx \in {"entered", "tracked"}
               PROVE  work[p].held
    BY DEF OpenUnderLease
  <2>1. work[p].ctx = "tracked" => work[p].held
    BY PostFacts DEF Sound
  <2>2. work[p].ctx = "entered" => work[p].held
    BY PostFacts DEF Sound, Sections, Handoffs, PostLabels
  <2> QED
    BY <2>1, <2>2
<1> QED
  BY <1>1, BridgeInvariant, PTL

(* After cancel_legacy_tasks no setup or response of the endpoint is alive *)
(* again, and when close_endpoint is done nothing of the bridge is left,   *)
(* an upstream that an abandoned handoff left open included; only a post   *)
(* cancelled right after its setup is excepted.                            *)
THEOREM RetiredQuiet ==
    "late-cancel" \notin Environment => (Spec => []RetiredIsQuiet)
<1> SUFFICES ASSUME "late-cancel" \notin Environment
             PROVE  Spec => []RetiredIsQuiet
  OBVIOUS
<1>1. BridgeInv => RetiredIsQuiet
  <2> SUFFICES ASSUME BridgeInv
               PROVE  RetiredIsQuiet
    OBVIOUS
  <2>1. /\ pc[Reload] \in {"dWait", "sweep", "done"} \cup CleanupLabels =>
               \A p \in Posts : SetupEnded(p) /\ ResponseEnded(p)
        /\ pc[Reload] = "done" => \A p \in Posts : ~work[p].held
        /\ pc[Reload] = "done" => \A s \in Sessions : ~session[s].owned
    BY DEF BridgeInv, RetireInv, PastTasks, PastLeases
  <2>2. \A s \in Sessions : ~session[s].owned => session[s].queue = 0
    BY DEF BridgeInv, QuietInv
  <2>3. ASSUME NEW p \in Posts, ~work[p].held, \A s \in Sessions : ~session[s].owned
        PROVE  work[p].ctx \in {"none", "closed"}
    <3>1. work[p].ctx # "tracked" /\ work[p].ctx \in {"none", "entered", "tracked", "closed"}
      BY <2>3, PostFacts DEF BridgeInv, TrackedInv, WorkRecord
    <3>2. work[p].ctx # "entered"
      BY <2>3, PostFacts DEF Sound, Sections, Handoffs, PostLabels
    <3> QED
      BY <3>1, <3>2
  <2> QED
    BY <2>1, <2>2, <2>3 DEF RetiredIsQuiet
<1> QED
  BY <1>1, BridgeInvariant, PTL

(* A session that may be addressed is watched by its expiry task, is       *)
(* counted as expired once, and has nothing queued after it has failed,    *)
(* whoever closes it and whatever its responses were about to enqueue.     *)
THEOREM EndedOnce == Spec => []SessionsEndOnce
<1>1. BridgeInv => SessionsEndOnce
  BY DEF BridgeInv
<1> QED
  BY <1>1, BridgeInvariant, PTL
=============================================================================
