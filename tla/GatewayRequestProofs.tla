------------------------- MODULE GatewayRequestProofs -------------------------
(***************************************************************************)
(* Theorems about GatewayRequest, for any requests and any environment.    *)
(*                                                                         *)
(* Requests meet only in the runtime that is drained.  So the inductive    *)
(* invariant is a predicate of one request's locals and the await it is    *)
(* suspended at, and the fact that a retired runtime has no lease.         *)
(***************************************************************************)
EXTENDS GatewayRequest, TLAPS

(* Where the leases are and where a connection may be open. *)
Owned(q, label) ==
    /\ label = "idle" => ~q.limit /\ ~q.lease /\ q.conn = "none"
    /\ label # "idle" => q.limit
    /\ label \notin {"idle", "acquire"} /\ q.kind # "local" => q.lease
    /\ label \in {"connect", "body", "bodyClosing", "retry"} => q.kind = "proxied"
    /\ label \in {"acquire", "join"} => q.kind # "local"
    /\ q.kind = "local" => q.conn = "none"
    /\ q.conn # "none" => label \in {"body", "respond", "stream", "dropped", "retry", "lost"}
    /\ label = "respond" /\ q.kind # "proxied" => q.conn = "none"

(* What has been counted so far: an error status, until something else     *)
(* fails; a body that is not JSON, once it has been looked at.             *)
Accounted(q, label) ==
    /\ q.errors <= 1
    /\ q.errors = 1 => q.failed
    /\ q.failed /\ label # "bodyClosing" /\ q.body # "cancelled" => q.errors = 1
    /\ label \in {"acquire", "connect", "join", "respond", "body", "stream", "dropped"} =>
           q.errors = (IF q.bad THEN 1 ELSE 0) /\ q.failed = q.bad
    /\ label \in {"acquire", "connect", "join"} => ~q.bad
    /\ label = "respond" /\ q.kind # "proxied" => ~q.bad
    /\ label = "bodyClosing" /\ q.body \in {"malformed", "truncated"} =>
           q.errors = (IF q.bad THEN 1 ELSE 0) /\ q.failed
    /\ label = "bodyClosing" /\ q.body \notin {"malformed", "truncated", "cancelled"} =>
           (q.failed => q.errors = 1)

Sound(q, label) == Owned(q, label) /\ Accounted(q, label)

NoLeaseWhenRetired == runtime = "retired" => \A r \in Requests : ~req[r].lease

RequestInv ==
    /\ TypeOK
    /\ \A r \in Requests : Sound(req[r], pc[r])
    /\ NoLeaseWhenRetired

-----------------------------------------------------------------------------
(* A step of one request keeps the invariant, if it leaves that request    *)
(* sound and takes a lease only of a runtime that is up.                   *)
LEMMA StepOfOne ==
    ASSUME RequestInv,
           NEW r \in Requests, NEW q \in Record, NEW label \in Labels,
           Become(r, q), Goto(r, label), UNCHANGED runtime,
           Sound(q, label),
           q.lease => req[r].lease \/ runtime = "up"
    PROVE  RequestInv'
<1>1. TypeOK'
    BY DEF RequestInv, TypeOK, Become, Goto
<1>2. ASSUME NEW p \in Requests
      PROVE  Sound(req[p], pc[p])'
    <2>1. CASE p = r
        BY <2>1 DEF RequestInv, TypeOK, Become, Goto, Sound, Owned, Accounted
    <2>2. CASE p # r
        <3>1. req'[p] = req[p] /\ pc'[p] = pc[p]
            BY <2>2 DEF RequestInv, TypeOK, Become, Goto
        <3> QED
            BY <3>1 DEF RequestInv, Sound, Owned, Accounted
    <2> QED
        BY <2>1, <2>2
<1>3. NoLeaseWhenRetired'
    BY DEF RequestInv, TypeOK, Become, NoLeaseWhenRetired
<1> QED
    BY <1>1, <1>2, <1>3 DEF RequestInv

(* The locals of a request that begins. *)
LEMMA FreshIs ==
    /\ Fresh \in Record
    /\ Fresh.kind = "proxied" /\ Fresh.limit = FALSE /\ Fresh.lease = FALSE
    /\ Fresh.conn = "none" /\ Fresh.bad = FALSE /\ Fresh.errors = 0 /\ Fresh.failed = FALSE
BY DEF Fresh, Record, Kinds, Bodies

(* The initial state. *)
LEMMA InitSound == Init => RequestInv
<1> SUFFICES ASSUME Init
             PROVE  RequestInv
    OBVIOUS
<1>1. Fresh \in Record /\ Sound(Fresh, "idle")
    BY DEF Fresh, Record, Kinds, Bodies, Sound, Owned, Accounted
<1>2. TypeOK
    BY <1>1 DEF Init, TypeOK, Labels
<1> QED
    BY <1>1, <1>2 DEF Init, RequestInv, NoLeaseWhenRetired

-----------------------------------------------------------------------------
(* What the parts of a step do to the locals of a request. *)
LEMMA ReleasedIs ==
    ASSUME NEW q \in Record
    PROVE  LET x == Released(q) IN
           /\ x \in Record
           /\ x.limit = FALSE /\ x.lease = FALSE
           /\ x.kind = q.kind /\ x.conn = q.conn /\ x.bad = q.bad
           /\ x.body = q.body /\ x.errors = q.errors /\ x.failed = q.failed
BY DEF Released, Record

(* The context is left, or the one-shot client closed. *)
LEMMA ClosedIs ==
    ASSUME NEW q \in Record
    PROVE  LET x == Closed(q) IN
           /\ x \in Record
           /\ x.conn = "none"
           /\ x.kind = q.kind /\ x.limit = q.limit /\ x.lease = q.lease /\ x.bad = q.bad
           /\ x.body = q.body /\ x.errors = q.errors /\ x.failed = q.failed
BY DEF Closed, Record

(* The upstream's failure is noted. *)
LEMMA BrokenIs ==
    ASSUME NEW q \in Record
    PROVE  LET x == Broken(q) IN
           /\ x \in Record
           /\ x.failed = TRUE
           /\ x.kind = q.kind /\ x.limit = q.limit /\ x.lease = q.lease /\ x.bad = q.bad
           /\ x.body = q.body /\ x.errors = q.errors /\ x.conn = q.conn
BY DEF Broken, Record

(* The first failure is counted. *)
LEMMA CountedIs ==
    ASSUME NEW q \in Record, q.errors = 0
    PROVE  LET x == Counted(q) IN
           /\ x \in Record
           /\ x.errors = 1 /\ x.failed = q.failed
           /\ x.kind = q.kind /\ x.limit = q.limit /\ x.lease = q.lease
           /\ x.conn = q.conn /\ x.bad = q.bad /\ x.body = q.body
<1>1. Counted(q) = [q EXCEPT !.errors = 1]
    <2>1. q.errors + 1 = 1
        OBVIOUS
    <2> QED
        BY <2>1 DEF Counted
<1>2. 1 \in Nat
    OBVIOUS
<1>3. ASSUME NEW one \in Nat
      PROVE  [q EXCEPT !.errors = one] \in Record
    BY DEF Record
<1>4. Counted(q) \in Record
    BY <1>1, <1>2, <1>3
<1>5. LET x == [q EXCEPT !.errors = 1] IN
      /\ x.errors = 1 /\ x.failed = q.failed
      /\ x.kind = q.kind /\ x.limit = q.limit /\ x.lease = q.lease
      /\ x.conn = q.conn /\ x.bad = q.bad /\ x.body = q.body
    BY DEF Record
<1> QED
    BY <1>1, <1>4, <1>5

(* A failure is counted unless the error status has been. *)
LEMMA FailedIs ==
    ASSUME NEW q \in Record, q.errors = IF q.bad THEN 1 ELSE 0
    PROVE  LET x == Failed(q) IN
           /\ x \in Record
           /\ x.errors = 1 /\ x.failed = q.failed
           /\ x.kind = q.kind /\ x.limit = q.limit /\ x.lease = q.lease
           /\ x.conn = q.conn /\ x.bad = q.bad /\ x.body = q.body
<1>1. CASE q.bad
    BY <1>1 DEF Failed
<1>2. CASE ~q.bad
    <2>1. Failed(q) = Counted(q) /\ q.errors = 0
        BY <1>2 DEF Failed
    <2> QED
        BY <2>1, CountedIs
<1> QED
    BY <1>1, <1>2

(* The headers have arrived. *)
LEMMA OpenedIs ==
    ASSUME NEW q \in Record, NEW bad \in BOOLEAN, q.errors = 0
    PROVE  LET x == Opened(q, bad) IN
           /\ x \in Record
           /\ x.errors = IF bad THEN 1 ELSE 0
           /\ x.failed = bad
           /\ x.conn = "pooled" /\ x.bad = bad
           /\ x.kind = q.kind /\ x.limit = q.limit /\ x.lease = q.lease /\ x.body = q.body
<1> DEFINE e == [q EXCEPT !.conn = "pooled", !.bad = bad, !.failed = bad]
<1>1. /\ e \in Record
      /\ e.conn = "pooled" /\ e.bad = bad
      /\ e.kind = q.kind /\ e.limit = q.limit /\ e.lease = q.lease
      /\ e.body = q.body /\ e.errors = q.errors /\ e.failed = bad
    BY DEF Record
<1>2. Opened(q, bad) = IF bad THEN Counted(e) ELSE e
    BY DEF Opened
<1> HIDE DEF e
<1>3. CASE bad
    <2>1. bad = TRUE /\ e.errors = 0 /\ Opened(q, bad) = Counted(e)
        BY <1>1, <1>2, <1>3
    <2>2. /\ Counted(e) \in Record
          /\ Counted(e).errors = 1 /\ Counted(e).failed = TRUE
          /\ Counted(e).conn = "pooled" /\ Counted(e).bad = TRUE
          /\ Counted(e).kind = q.kind /\ Counted(e).limit = q.limit
          /\ Counted(e).lease = q.lease /\ Counted(e).body = q.body
        BY <1>1, <2>1, CountedIs
    <2> QED
        BY <2>1, <2>2
<1>4. CASE ~bad
    BY <1>1, <1>2, <1>4
<1> QED
    BY <1>3, <1>4

(* What the invariant says of one request. *)
LEMMA OneSound ==
    ASSUME RequestInv, NEW r \in Requests
    PROVE  req[r] \in Record /\ pc[r] \in Labels /\ Sound(req[r], pc[r])
BY DEF RequestInv, TypeOK

-----------------------------------------------------------------------------
(* The steps of the handler. *)
LEMMA HandlerKeeps ==
    ASSUME RequestInv, NEW r \in Requests, Handler(r)
    PROVE  RequestInv'
<1> DEFINE q == req[r]
<1>r. q \in Record /\ pc[r] \in Labels /\ Sound(q, pc[r])
    BY OneSound
<1>1. CASE Admit(r)
    <2>1. PICK kind \in {"proxied", "get"} :
                Become(r, [Fresh EXCEPT !.kind = kind, !.limit = TRUE])
        BY <1>1 DEF Admit
    <2> DEFINE x == [Fresh EXCEPT !.kind = kind, !.limit = TRUE]
           y == "acquire"
    <2>2. /\ x \in Record
          /\ x.kind = kind /\ x.limit = TRUE /\ x.lease = FALSE
          /\ x.conn = "none" /\ x.bad = FALSE /\ x.errors = 0
          /\ x.failed = FALSE
        BY FreshIs DEF Record, Kinds
    <2>3. Become(r, x) /\ Goto(r, y) /\ UNCHANGED runtime
        BY <1>1, <2>1 DEF Admit
    <2> HIDE DEF x
    <2>4. y \in Labels /\ Sound(x, y)
        BY <1>r, <1>1, <2>1, <2>2 DEF Admit, Record, Kinds, Labels, Sound, Owned, Accounted
    <2>5. x.lease => req[r].lease \/ runtime = "up"
        BY <1>1, <2>2 DEF Admit
    <2> QED
        BY <2>2, <2>3, <2>4, <2>5, StepOfOne
<1>2. CASE OpenLocal(r)
    <2> DEFINE x == [Fresh EXCEPT !.kind = "local", !.limit = TRUE]
           y == "respond"
    <2>2. /\ x \in Record
          /\ x.kind = "local" /\ x.limit = TRUE /\ x.lease = FALSE
          /\ x.conn = "none" /\ x.bad = FALSE /\ x.errors = 0
          /\ x.failed = FALSE
        BY FreshIs DEF Record, Kinds
    <2>3. Become(r, x) /\ Goto(r, y) /\ UNCHANGED runtime
        BY <1>2 DEF OpenLocal
    <2> HIDE DEF x
    <2>4. y \in Labels /\ Sound(x, y)
        BY <1>r, <1>2, <2>2 DEF OpenLocal, Record, Kinds, Labels, Sound, Owned, Accounted
    <2>5. x.lease => req[r].lease \/ runtime = "up"
        BY <1>2, <2>2 DEF OpenLocal
    <2> QED
        BY <2>2, <2>3, <2>4, <2>5, StepOfOne
<1>3. CASE AcquireFails(r)
    <2> DEFINE x == Released(q)
           y == "idle"
    <2>2. /\ x \in Record
          /\ x.kind = q.kind /\ x.limit = FALSE /\ x.lease = FALSE
          /\ x.conn = q.conn /\ x.bad = q.bad /\ x.body = q.body
          /\ x.errors = q.errors /\ x.failed = q.failed
        BY <1>r, ReleasedIs
    <2>3. Become(r, x) /\ Goto(r, y) /\ UNCHANGED runtime
        BY <1>3 DEF AcquireFails
    <2> HIDE DEF x
    <2>4. y \in Labels /\ Sound(x, y)
        BY <1>r, <1>3, <2>2 DEF AcquireFails, Record, Kinds, Labels, Sound, Owned, Accounted
    <2>5. x.lease => req[r].lease \/ runtime = "up"
        BY <1>3, <2>2 DEF AcquireFails
    <2> QED
        BY <2>2, <2>3, <2>4, <2>5, StepOfOne
<1>4. CASE Acquire(r)
    <2> DEFINE x == [q EXCEPT !.lease = TRUE]
           y == IF q.kind = "get" THEN "respond" ELSE "connect"
    <2>2. /\ x \in Record
          /\ x.kind = q.kind /\ x.limit = q.limit /\ x.lease = TRUE
          /\ x.conn = q.conn /\ x.bad = q.bad /\ x.body = q.body
          /\ x.errors = q.errors /\ x.failed = q.failed
        BY <1>r DEF Record
    <2>3. Become(r, x) /\ Goto(r, y) /\ UNCHANGED runtime
        BY <1>4 DEF Acquire
    <2> HIDE DEF x
    <2>4. y \in Labels /\ Sound(x, y)
        BY <1>r, <1>4, <2>2 DEF Acquire, Record, Kinds, Labels, Sound, Owned, Accounted
    <2>5. x.lease => req[r].lease \/ runtime = "up"
        BY <1>4, <2>2 DEF Acquire
    <2> QED
        BY <2>2, <2>3, <2>4, <2>5, StepOfOne
<1>5. CASE Connected(r)
    <2>1. PICK bad \in BOOLEAN, label \in {"body", "respond"} :
                Become(r, Opened(q, bad)) /\ Goto(r, label)
        BY <1>5 DEF Connected
    <2> DEFINE x == Opened(q, bad)
           y == label
    <2>2. /\ x \in Record
          /\ x.kind = q.kind /\ x.limit = q.limit /\ x.lease = q.lease
          /\ x.conn = "pooled" /\ x.bad = bad /\ x.body = q.body
          /\ x.errors = (IF bad THEN 1 ELSE 0) /\ x.failed = bad
        <3>1. q.errors = 0
            BY <1>r, <1>5 DEF Connected, Sound, Accounted
        <3> QED
            BY <1>r, <2>1, <3>1, OpenedIs
    <2>3. Become(r, x) /\ Goto(r, y) /\ UNCHANGED runtime
        BY <1>5, <2>1 DEF Connected
    <2> HIDE DEF x
    <2>4. y \in Labels /\ Sound(x, y)
        BY <1>r, <1>5, <2>1, <2>2 DEF Connected, Record, Kinds, Labels, Sound, Owned, Accounted
    <2>5. x.lease => req[r].lease \/ runtime = "up"
        BY <1>5, <2>2 DEF Connected
    <2> QED
        BY <2>2, <2>3, <2>4, <2>5, StepOfOne
<1>6. CASE ConnectFails(r)
    <2> DEFINE x == Released(Counted(Broken(q)))
           y == "idle"
    <2>2. /\ x \in Record
          /\ x.kind = q.kind /\ x.limit = FALSE /\ x.lease = FALSE
          /\ x.conn = q.conn /\ x.bad = q.bad /\ x.body = q.body
          /\ x.errors = 1 /\ x.failed = TRUE
        <3>1. q.errors = 0
            BY <1>r, <1>6 DEF ConnectFails, Sound, Accounted
        <3>2. LET c == Counted(Broken(q)) IN
             /\ c \in Record /\ c.errors = 1 /\ c.failed = TRUE
             /\ c.kind = q.kind /\ c.conn = q.conn /\ c.bad = q.bad /\ c.body = q.body
            <4> DEFINE b == Broken(q)
            <4>1. /\ b \in Record /\ b.failed = TRUE /\ b.errors = 0
                  /\ b.kind = q.kind /\ b.conn = q.conn /\ b.bad = q.bad /\ b.body = q.body
                BY <1>r, <3>1, BrokenIs
            <4> HIDE DEF b
            <4>2. LET c == Counted(b) IN
                  /\ c \in Record /\ c.errors = 1 /\ c.failed = TRUE
                  /\ c.kind = q.kind /\ c.conn = q.conn /\ c.bad = q.bad /\ c.body = q.body
                BY <4>1, CountedIs
            <4> QED
                BY <4>2 DEF b
        <3> QED
            BY <3>2, ReleasedIs
    <2>3. Become(r, x) /\ Goto(r, y) /\ UNCHANGED runtime
        BY <1>6 DEF ConnectFails
    <2> HIDE DEF x
    <2>4. y \in Labels /\ Sound(x, y)
        BY <1>r, <1>6, <2>2 DEF ConnectFails, Record, Kinds, Labels, Sound, Owned, Accounted
    <2>5. x.lease => req[r].lease \/ runtime = "up"
        BY <1>6, <2>2 DEF ConnectFails
    <2> QED
        BY <2>2, <2>3, <2>4, <2>5, StepOfOne
<1>7. CASE BodyRead(r)
    <2>1. PICK body \in Bodies \ {"none", "cancelled"} :
                LET c == Closed([q EXCEPT !.body = body, !.failed = @ \/ body # "valid"])
                IN  Become(r, IF body = "failed" THEN Failed(c) ELSE c)
        BY <1>7 DEF BodyRead
    <2> DEFINE b == [q EXCEPT !.body = body, !.failed = @ \/ body # "valid"]
               c == Closed(b)
    <2>2. /\ b \in Record
          /\ b.kind = q.kind /\ b.limit = q.limit /\ b.lease = q.lease
          /\ b.bad = q.bad /\ b.errors = q.errors
          /\ b.failed = (q.failed \/ body # "valid")
          /\ b.body = body
        BY <1>r DEF Record
    <2>3. /\ c \in Record
          /\ c.kind = q.kind /\ c.limit = q.limit /\ c.lease = q.lease
          /\ c.bad = q.bad /\ c.errors = q.errors
          /\ c.failed = (q.failed \/ body # "valid")
          /\ c.body = body /\ c.conn = "none"
        BY <2>2, ClosedIs
    <2>4. c.errors = IF c.bad THEN 1 ELSE 0
        BY <1>r, <1>7, <2>3 DEF BodyRead, Sound, Accounted
    <2>5. pc[r] = "body" /\ Goto(r, "bodyClosing") /\ UNCHANGED runtime
        BY <1>7 DEF BodyRead
    <2>6. Become(r, IF body = "failed" THEN Failed(c) ELSE c)
        BY <2>1
    <2> HIDE DEF c
    <2>7. CASE body = "failed"
        <3>1. /\ Failed(c) \in Record
              /\ Failed(c).errors = 1 /\ Failed(c).failed = c.failed
              /\ Failed(c).kind = c.kind /\ Failed(c).limit = c.limit
              /\ Failed(c).lease = c.lease /\ Failed(c).conn = "none"
              /\ Failed(c).body = body
            BY <2>3, <2>4, FailedIs
        <3>2. Sound(Failed(c), "bodyClosing")
            BY <1>r, <2>3, <2>4, <2>5, <2>7, <3>1 DEF Record, Sound, Owned, Accounted
        <3> QED
            BY <1>r, <2>3, <2>5, <2>6, <2>7, <3>1, <3>2, StepOfOne DEF Labels
    <2>8. CASE body # "failed"
        <3>1. Sound(c, "bodyClosing")
            <4>1. CASE body = "valid"
                <5>1. c.failed = q.failed
                    BY <1>r, <2>3, <4>1 DEF Record
                <5> QED
                    BY <1>r, <2>3, <2>4, <2>5, <4>1, <5>1 DEF Sound, Owned, Accounted
            <4>2. CASE body \in {"malformed", "truncated"}
                <5>1. c.failed = TRUE
                    BY <2>3, <4>2
                <5> QED
                    BY <1>r, <2>3, <2>4, <2>5, <4>2, <5>1 DEF Sound, Owned, Accounted
            <4> QED
                BY <2>1, <2>8, <4>1, <4>2 DEF Bodies
        <3> QED
            BY <1>r, <2>3, <2>5, <2>6, <2>8, <3>1, StepOfOne DEF Labels
    <2> QED
        BY <2>7, <2>8
<1>8. CASE BodyAnswered(r)
    <2> DEFINE c == IF q.body = "malformed" THEN Failed(q) ELSE q
               x == Released(c)
    <2>1. /\ pc[r] = "bodyClosing" /\ q.body # "truncated" /\ q.conn = "none"
          /\ q.body = "malformed" => q.errors = IF q.bad THEN 1 ELSE 0
        BY <1>r, <1>8 DEF BodyAnswered, Sound, Owned, Accounted
    <2>2. /\ c \in Record /\ c.kind = q.kind /\ c.conn = q.conn /\ c.body = q.body
          /\ c.failed = q.failed /\ c.errors <= 1 /\ (c.errors = 1 => c.failed)
          /\ c.failed /\ c.body # "cancelled" => c.errors = 1
        <3>1. CASE q.body = "malformed"
            <4>1. /\ Failed(q) \in Record /\ Failed(q).errors = 1 /\ Failed(q).failed = q.failed
                  /\ Failed(q).kind = q.kind /\ Failed(q).conn = q.conn
                  /\ Failed(q).body = q.body
                BY <1>r, <2>1, <3>1, FailedIs
            <4>2. q.failed = TRUE
                BY <1>r, <2>1, <3>1 DEF Record, Sound, Accounted
            <4>3. c = Failed(q)
                BY <3>1
            <4> HIDE DEF c
            <4> QED
                BY <4>1, <4>2, <4>3
        <3>2. CASE q.body # "malformed"
            BY <1>r, <2>1, <3>2 DEF Sound, Accounted
        <3> QED
            BY <3>1, <3>2
    <2> HIDE DEF c
    <2>3. /\ x \in Record
          /\ x.limit = FALSE /\ x.lease = FALSE
          /\ x.kind = q.kind /\ x.conn = "none" /\ x.body = q.body
          /\ x.errors <= 1 /\ (x.errors = 1 => x.failed)
          /\ x.failed /\ x.body # "cancelled" => x.errors = 1
        BY <2>1, <2>2, ReleasedIs
    <2>4. Become(r, x) /\ Goto(r, "idle") /\ UNCHANGED runtime
        BY <1>8 DEF BodyAnswered, c
    <2> HIDE DEF x
    <2>5. Sound(x, "idle")
        BY <2>3 DEF Sound, Owned, Accounted
    <2> QED
        BY <2>3, <2>4, <2>5, StepOfOne DEF Labels
<1>9. CASE BodyRetried(r)
    <2> DEFINE x == [Failed(q) EXCEPT !.conn = "one-shot"]
           y == "retry"
    <2>2. /\ x \in Record
          /\ x.kind = q.kind /\ x.limit = q.limit /\ x.lease = q.lease
          /\ x.conn = "one-shot" /\ x.bad = q.bad /\ x.body = q.body
          /\ x.errors = 1 /\ x.failed = q.failed
        <3>1. q.errors = IF q.bad THEN 1 ELSE 0
            BY <1>r, <1>9 DEF BodyRetried, Sound, Accounted
        <3> QED
            BY <1>r, <3>1, FailedIs DEF Record
    <2>3. Become(r, x) /\ Goto(r, y) /\ UNCHANGED runtime
        BY <1>9 DEF BodyRetried
    <2> HIDE DEF x
    <2>4. y \in Labels /\ Sound(x, y)
        BY <1>r, <1>9, <2>2 DEF BodyRetried, Record, Kinds, Labels, Sound, Owned, Accounted
    <2>5. x.lease => req[r].lease \/ runtime = "up"
        BY <1>9, <2>2 DEF BodyRetried
    <2> QED
        BY <2>2, <2>3, <2>4, <2>5, StepOfOne
<1>10. CASE RetryEnds(r)
    <2> DEFINE x == Released(Closed(q))
           y == "idle"
    <2>2. /\ x \in Record
          /\ x.kind = q.kind /\ x.limit = FALSE /\ x.lease = FALSE
          /\ x.conn = "none" /\ x.bad = q.bad /\ x.body = q.body
          /\ x.errors = q.errors /\ x.failed = q.failed
        <3>1. LET c == Closed(q) IN
             /\ c \in Record /\ c.conn = "none" /\ c.kind = q.kind /\ c.bad = q.bad
             /\ c.body = q.body /\ c.errors = q.errors /\ c.failed = q.failed
            BY <1>r, ClosedIs
        <3> QED
            BY <3>1, ReleasedIs
    <2>3. Become(r, x) /\ Goto(r, y) /\ UNCHANGED runtime
        BY <1>10 DEF RetryEnds
    <2> HIDE DEF x
    <2>4. y \in Labels /\ Sound(x, y)
        BY <1>r, <1>10, <2>2 DEF RetryEnds, Record, Kinds, Labels, Sound, Owned, Accounted
    <2>5. x.lease => req[r].lease \/ runtime = "up"
        BY <1>10, <2>2 DEF RetryEnds
    <2> QED
        BY <2>2, <2>3, <2>4, <2>5, StepOfOne
<1>11. CASE Cancel(r)
    <2>1. CASE /\ pc[r] = "body"
               /\ Become(r, Closed([q EXCEPT !.body = "cancelled"]))
               /\ Goto(r, "bodyClosing")
        <3> DEFINE b == [q EXCEPT !.body = "cancelled"]
        <3>1. /\ b \in Record
              /\ b.kind = q.kind /\ b.limit = q.limit /\ b.lease = q.lease
              /\ b.bad = q.bad /\ b.errors = q.errors /\ b.failed = q.failed
              /\ b.body = "cancelled"
            BY <1>r DEF Record, Bodies
        <3> DEFINE x == Closed(b)
        <3>2. /\ x \in Record
              /\ x.kind = q.kind /\ x.limit = q.limit /\ x.lease = q.lease
              /\ x.bad = q.bad /\ x.errors = q.errors /\ x.failed = q.failed
              /\ x.body = "cancelled" /\ x.conn = "none"
            BY <3>1, ClosedIs
        <3>3. Become(r, x) /\ Goto(r, "bodyClosing") /\ UNCHANGED runtime
            BY <1>11, <2>1 DEF Cancel
        <3> HIDE DEF x
        <3>4. Sound(x, "bodyClosing")
            BY <1>r, <2>1, <3>2 DEF Sound, Owned, Accounted
        <3> QED
            BY <3>2, <3>3, <3>4, StepOfOne DEF Labels
    <2>2. CASE /\ pc[r] \in {"connect", "bodyClosing", "retry"}
               /\ Become(r, Released(Closed([q EXCEPT !.body = "cancelled"])))
               /\ Goto(r, "idle")
        <3> DEFINE b == [q EXCEPT !.body = "cancelled"]
        <3>b. /\ b \in Record
              /\ b.kind = q.kind /\ b.errors = q.errors /\ b.failed = q.failed
              /\ b.body = "cancelled"
            BY <1>r DEF Record, Bodies
        <3> DEFINE x == Released(Closed(b))
        <3> HIDE DEF b
        <3>1. LET c == Closed(b) IN
              /\ c \in Record /\ c.conn = "none" /\ c.kind = q.kind
              /\ c.errors = q.errors /\ c.failed = q.failed /\ c.body = "cancelled"
            BY <3>b, ClosedIs
        <3>2. /\ x \in Record
              /\ x.kind = q.kind /\ x.limit = FALSE /\ x.lease = FALSE
              /\ x.errors = q.errors /\ x.failed = q.failed /\ x.conn = "none"
              /\ x.body = "cancelled"
            BY <3>1, ReleasedIs
        <3>3. Become(r, x) /\ Goto(r, "idle") /\ UNCHANGED runtime
            BY <1>11, <2>2 DEF Cancel, b
        <3> HIDE DEF x
        <3>4. Sound(x, "idle")
            BY <1>r, <2>2, <3>2 DEF Sound, Owned, Accounted
        <3> QED
            BY <3>2, <3>3, <3>4, StepOfOne DEF Labels
    <2> QED
        BY <1>11, <2>1, <2>2 DEF Cancel
<1> QED
    BY <1>1, <1>2, <1>3, <1>4, <1>5, <1>6, <1>7, <1>8, <1>9, <1>10, <1>11 DEF Handler

(* The steps of the response. *)
LEMMA ResponseKeeps ==
    ASSUME RequestInv, NEW r \in Requests, Response(r)
    PROVE  RequestInv'
<1> DEFINE q == req[r]
<1>r. q \in Record /\ pc[r] \in Labels /\ Sound(q, pc[r])
    BY OneSound
<1>1. CASE StreamStarts(r)
    <2> DEFINE x == q
           y == IF q.kind = "get" THEN "join" ELSE "stream"
    <2>2. /\ x \in Record
          /\ x.kind = q.kind /\ x.limit = q.limit /\ x.lease = q.lease
          /\ x.conn = q.conn /\ x.bad = q.bad /\ x.body = q.body
          /\ x.errors = q.errors /\ x.failed = q.failed
        BY <1>r
    <2>3. Become(r, x) /\ Goto(r, y) /\ UNCHANGED runtime
        BY <1>1 DEF StreamStarts, Become, RequestInv, TypeOK
    <2> HIDE DEF x
    <2>4. y \in Labels /\ Sound(x, y)
        BY <1>r, <1>1, <2>2 DEF StreamStarts, Record, Kinds, Labels, Sound, Owned, Accounted
    <2>5. x.lease => req[r].lease \/ runtime = "up"
        BY <1>1, <2>2 DEF StreamStarts
    <2> QED
        BY <2>2, <2>3, <2>4, <2>5, StepOfOne
<1>2. CASE NeverStarts(r)
    <2> DEFINE x == q
           y == "lost"
    <2>2. /\ x \in Record
          /\ x.kind = q.kind /\ x.limit = q.limit /\ x.lease = q.lease
          /\ x.conn = q.conn /\ x.bad = q.bad /\ x.body = q.body
          /\ x.errors = q.errors /\ x.failed = q.failed
        BY <1>r
    <2>3. Become(r, x) /\ Goto(r, y) /\ UNCHANGED runtime
        BY <1>2 DEF NeverStarts, Become, RequestInv, TypeOK
    <2> HIDE DEF x
    <2>4. y \in Labels /\ Sound(x, y)
        BY <1>r, <1>2, <2>2 DEF NeverStarts, Record, Kinds, Labels, Sound, Owned, Accounted
    <2>5. x.lease => req[r].lease \/ runtime = "up"
        BY <1>2, <2>2 DEF NeverStarts
    <2> QED
        BY <2>2, <2>3, <2>4, <2>5, StepOfOne
<1>3. CASE Joined(r)
    <2>1. PICK bad \in BOOLEAN : Become(r, Opened(q, bad))
        BY <1>3 DEF Joined
    <2> DEFINE x == Opened(q, bad)
           y == "stream"
    <2>2. /\ x \in Record
          /\ x.kind = q.kind /\ x.limit = q.limit /\ x.lease = q.lease
          /\ x.conn = "pooled" /\ x.bad = bad /\ x.body = q.body
          /\ x.errors = (IF bad THEN 1 ELSE 0) /\ x.failed = bad
        <3>1. q.errors = 0
            BY <1>r, <1>3 DEF Joined, Sound, Accounted
        <3> QED
            BY <1>r, <2>1, <3>1, OpenedIs
    <2>3. Become(r, x) /\ Goto(r, y) /\ UNCHANGED runtime
        BY <1>3, <2>1 DEF Joined
    <2> HIDE DEF x
    <2>4. y \in Labels /\ Sound(x, y)
        BY <1>r, <1>3, <2>1, <2>2 DEF Joined, Record, Kinds, Labels, Sound, Owned, Accounted
    <2>5. x.lease => req[r].lease \/ runtime = "up"
        BY <1>3, <2>2 DEF Joined
    <2> QED
        BY <2>2, <2>3, <2>4, <2>5, StepOfOne
<1>4. CASE JoinFails(r)
    <2> DEFINE x == Counted(Broken(q))
           y == "closing"
    <2>2. /\ x \in Record
          /\ x.kind = q.kind /\ x.limit = q.limit /\ x.lease = q.lease
          /\ x.conn = q.conn /\ x.bad = q.bad /\ x.body = q.body
          /\ x.errors = 1 /\ x.failed = TRUE
        <3>1. q.errors = 0
            BY <1>r, <1>4 DEF JoinFails, Sound, Accounted
        <3> DEFINE b == Broken(q)
        <3>2. /\ b \in Record /\ b.failed = TRUE /\ b.errors = 0
              /\ b.kind = q.kind /\ b.limit = q.limit /\ b.lease = q.lease
              /\ b.conn = q.conn /\ b.bad = q.bad /\ b.body = q.body
            BY <1>r, <3>1, BrokenIs
        <3> HIDE DEF b
        <3>3. LET c == Counted(b) IN
              /\ c \in Record /\ c.errors = 1 /\ c.failed = TRUE
              /\ c.kind = q.kind /\ c.limit = q.limit /\ c.lease = q.lease
              /\ c.conn = q.conn /\ c.bad = q.bad /\ c.body = q.body
            BY <3>2, CountedIs
        <3> QED
            BY <3>3 DEF b
    <2>3. Become(r, x) /\ Goto(r, y) /\ UNCHANGED runtime
        BY <1>4 DEF JoinFails
    <2> HIDE DEF x
    <2>4. y \in Labels /\ Sound(x, y)
        BY <1>r, <1>4, <2>2 DEF JoinFails, Record, Kinds, Labels, Sound, Owned, Accounted
    <2>5. x.lease => req[r].lease \/ runtime = "up"
        BY <1>4, <2>2 DEF JoinFails
    <2> QED
        BY <2>2, <2>3, <2>4, <2>5, StepOfOne
<1>5. CASE StreamFails(r)
    <2> DEFINE b == Broken(q)
               x == Closed(Failed(b))
           y == "closing"
    <2>2. /\ x \in Record
          /\ x.kind = q.kind /\ x.limit = q.limit /\ x.lease = q.lease
          /\ x.conn = "none" /\ x.bad = q.bad /\ x.body = q.body
          /\ x.errors = 1 /\ x.failed = TRUE
        <3>1. q.errors = IF q.bad THEN 1 ELSE 0
            BY <1>r, <1>5 DEF StreamFails, Sound, Accounted
        <3>2. /\ b \in Record /\ b.failed = TRUE
              /\ b.kind = q.kind /\ b.limit = q.limit /\ b.lease = q.lease
              /\ b.bad = q.bad /\ b.body = q.body /\ b.errors = q.errors
            BY <1>r, BrokenIs
        <3> HIDE DEF b
        <3>3. /\ Failed(b) \in Record /\ Failed(b).errors = 1 /\ Failed(b).failed = TRUE
              /\ Failed(b).kind = q.kind /\ Failed(b).limit = q.limit
              /\ Failed(b).lease = q.lease /\ Failed(b).bad = q.bad /\ Failed(b).body = q.body
            BY <3>1, <3>2, FailedIs
        <3> QED
            BY <3>3, ClosedIs
    <2>3. Become(r, x) /\ Goto(r, y) /\ UNCHANGED runtime
        BY <1>5 DEF StreamFails
    <2> HIDE DEF x
    <2>4. y \in Labels /\ Sound(x, y)
        BY <1>r, <1>5, <2>2 DEF StreamFails, Record, Kinds, Labels, Sound, Owned, Accounted
    <2>5. x.lease => req[r].lease \/ runtime = "up"
        BY <1>5, <2>2 DEF StreamFails
    <2> QED
        BY <2>2, <2>3, <2>4, <2>5, StepOfOne
<1>6. CASE StreamDropped(r)
    <2> DEFINE x == q
           y == "dropped"
    <2>2. /\ x \in Record
          /\ x.kind = q.kind /\ x.limit = q.limit /\ x.lease = q.lease
          /\ x.conn = q.conn /\ x.bad = q.bad /\ x.body = q.body
          /\ x.errors = q.errors /\ x.failed = q.failed
        BY <1>r
    <2>3. Become(r, x) /\ Goto(r, y) /\ UNCHANGED runtime
        BY <1>6 DEF StreamDropped, Become, RequestInv, TypeOK
    <2> HIDE DEF x
    <2>4. y \in Labels /\ Sound(x, y)
        BY <1>r, <1>6, <2>2 DEF StreamDropped, Record, Kinds, Labels, Sound, Owned, Accounted
    <2>5. x.lease => req[r].lease \/ runtime = "up"
        BY <1>6, <2>2 DEF StreamDropped
    <2> QED
        BY <2>2, <2>3, <2>4, <2>5, StepOfOne
<1>7. CASE StreamEnds(r)
    <2> DEFINE x == Closed(q)
           y == "closing"
    <2>2. /\ x \in Record
          /\ x.kind = q.kind /\ x.limit = q.limit /\ x.lease = q.lease
          /\ x.conn = "none" /\ x.bad = q.bad /\ x.body = q.body
          /\ x.errors = q.errors /\ x.failed = q.failed
        BY <1>r, ClosedIs
    <2>3. Become(r, x) /\ Goto(r, y) /\ UNCHANGED runtime
        BY <1>7 DEF StreamEnds
    <2> HIDE DEF x
    <2>4. y \in Labels /\ Sound(x, y)
        BY <1>r, <1>7, <2>2 DEF StreamEnds, Record, Kinds, Labels, Sound, Owned, Accounted
    <2>5. x.lease => req[r].lease \/ runtime = "up"
        BY <1>7, <2>2 DEF StreamEnds
    <2> QED
        BY <2>2, <2>3, <2>4, <2>5, StepOfOne
<1>8. CASE StreamReleases(r)
    <2> DEFINE x == Released(q)
           y == "idle"
    <2>2. /\ x \in Record
          /\ x.kind = q.kind /\ x.limit = FALSE /\ x.lease = FALSE
          /\ x.conn = q.conn /\ x.bad = q.bad /\ x.body = q.body
          /\ x.errors = q.errors /\ x.failed = q.failed
        BY <1>r, ReleasedIs
    <2>3. Become(r, x) /\ Goto(r, y) /\ UNCHANGED runtime
        BY <1>8 DEF StreamReleases
    <2> HIDE DEF x
    <2>4. y \in Labels /\ Sound(x, y)
        BY <1>r, <1>8, <2>2 DEF StreamReleases, Record, Kinds, Labels, Sound, Owned, Accounted
    <2>5. x.lease => req[r].lease \/ runtime = "up"
        BY <1>8, <2>2 DEF StreamReleases
    <2> QED
        BY <2>2, <2>3, <2>4, <2>5, StepOfOne
<1> QED
    BY <1>1, <1>2, <1>3, <1>4, <1>5, <1>6, <1>7, <1>8 DEF Response

(* Every step of the specification. *)
LEMMA NextKeeps == RequestInv /\ [Next]_vars => RequestInv'
<1> SUFFICES ASSUME RequestInv, [Next]_vars
             PROVE  RequestInv'
    OBVIOUS
<1>1. ASSUME NEW r \in Requests, Handler(r) \/ Response(r)
      PROVE  RequestInv'
    BY <1>1, HandlerKeeps, ResponseKeeps
<1>2. CASE Drain
    BY <1>2 DEF Drain, RequestInv, TypeOK, Sound, Owned, Accounted, NoLeaseWhenRetired
<1>3. CASE Retired
    BY <1>3 DEF Retired, RequestInv, TypeOK, Sound, Owned, Accounted, NoLeaseWhenRetired
<1>4. CASE Exhausted \/ UNCHANGED vars
    BY <1>4 DEF Exhausted, vars, RequestInv, TypeOK, Sound, Owned, Accounted, NoLeaseWhenRetired
<1> QED
    BY <1>1, <1>2, <1>3, <1>4 DEF Next

(* The inductive invariant. *)
LEMMA AlwaysSound == Spec => []RequestInv
BY InitSound, NextKeeps, PTL DEF Spec

-----------------------------------------------------------------------------
(* Every variable keeps its type. *)
THEOREM TypeCorrect == Spec => []TypeOK
<1>1. RequestInv => TypeOK
    BY DEF RequestInv
<1> QED
    BY <1>1, AlwaysSound, PTL

(* No request is over with a lease that nobody will release. *)
THEOREM LeasesOwned == Spec => []LeasesHaveOwners
<1>1. RequestInv => LeasesHaveOwners
    BY DEF RequestInv, Sound, Owned, LeasesHaveOwners
<1> QED
    BY <1>1, AlwaysSound, PTL

(* Whenever the upstream is talked to, both leases are held. *)
THEOREM TalksUnderLease == Spec => []UpstreamUnderLease
<1>1. RequestInv => UpstreamUnderLease
    BY DEF RequestInv, Sound, Owned, UpstreamUnderLease
<1> QED
    BY <1>1, AlwaysSound, PTL

(* A retired endpoint is left alone by every request that looked it up. *)
THEOREM QuietWhenRetired == Spec => []RetiredIsQuiet
<1>1. RequestInv => RetiredIsQuiet
    BY DEF RequestInv, Sound, Owned, NoLeaseWhenRetired, RetiredIsQuiet
<1> QED
    BY <1>1, AlwaysSound, PTL

(* A request the upstream failed has been counted once when it is over, in *)
(* whatever way and however often it failed, and no other request has.     *)
(* The exceptions are FailuresCountedOnce's.                               *)
THEOREM CountedOnce == Spec => []FailuresCountedOnce
<1>1. RequestInv => FailuresCountedOnce
    BY DEF RequestInv, Sound, Accounted, FailuresCountedOnce
<1> QED
    BY <1>1, AlwaysSound, PTL
=============================================================================
