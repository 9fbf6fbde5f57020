---------------------------- MODULE RequestLimiter ----------------------------
(***************************************************************************)
(* The in-process limiter of mcp_router/core/limits.py for one endpoint,   *)
(* as catch_all_proxy uses it: a request captures the endpoint's           *)
(* configuration, is admitted under the limits of that snapshot after it   *)
(* has read its body, and gives its LimitLease back, perhaps twice.        *)
(*                                                                         *)
(* acquire and _release never suspend while they hold the limiter's lock,  *)
(* so each is one step.  A reload may replace the limits between any two   *)
(* of them.  Only tools with limits of their own have a bucket of their    *)
(* own: a tool without is one whose limits are both None.                  *)
(***************************************************************************)
EXTENDS Naturals, Sequences, FiniteSets

CONSTANTS
    Requests,
    Endpoint, Tools, \* what has limits: the endpoint and its configured tools
    None,            \* Python's None
    Configs,         \* configurations a reload may publish
    Window,          \* ticks in a minute
    Horizon          \* bound on time

Keys == {Endpoint} \cup Tools

Limit == (Nat \ {0}) \cup {None}

(* RequestLimitConfig *)
LimitConfigs == [max_concurrent : Limit, requests_per_minute : Limit]

ASSUME KeysAssumption == None \notin Keys /\ Endpoint \notin Tools /\ None \notin Nat /\ None \notin Configs

ASSUME RequestsAssumption == IsFiniteSet(Requests)

ASSUME ConfigsAssumption == Configs \subseteq [Keys -> LimitConfigs]

ASSUME TimeAssumption == Window \in Nat \ {0} /\ Horizon \in Nat

VARIABLES
    config,     \* the endpoint's limits and tool_limits in force
    now,        \* time.monotonic()
    active,     \* bucket.active
    timestamps, \* bucket.timestamps
    pc,         \* where each request is
    tool,       \* the tool it calls, None for any other request
    captured,   \* the configuration it captured, None between requests
    keys,       \* the keys its LimitLease counts against
    history     \* ghost: every rate-limited admission, with its limit

vars == <<config, now, active, timestamps, pc, tool, captured, keys, history>>

buckets == <<active, timestamps, history>>
requests == <<pc, tool, captured, keys>>

-----------------------------------------------------------------------------
(* The limits that apply to r, by key: active_specs. *)
Specs(r) ==
    {k \in Keys : /\ k = Endpoint \/ k = tool[r]
                 /\ \/ captured[r][k].max_concurrent # None
                    \/ captured[r][k].requests_per_minute # None}

(* Mutant: a timestamp leaves the window one tick early. *)
StaleEarly(at) == at + Window <= now + 1

(* Mutant: a timestamp leaves the window one tick late. *)
StaleLate(at) == at + Window < now

Stale(at) == at + Window <= now

(* The timestamps that survive the pruning of k's bucket: those from the   *)
(* first one that is not stale.                                            *)
Recent(k) ==
    LET stamps == timestamps[k]
        first  == CHOOSE n \in 1 .. Len(stamps) + 1 :
                    /\ \A i \in 1 .. n - 1 : Stale(stamps[i])
                    /\ n <= Len(stamps) => ~Stale(stamps[n])
    IN  SubSeq(stamps, first, Len(stamps))

(* Mutant: an off-by-one lets one request too many in. *)
HasSlotOrOneMore(r, k) ==
    LET limit == captured[r][k].max_concurrent IN limit # None => active[k] <= limit

HasSlot(r, k) ==
    LET limit == captured[r][k].max_concurrent IN limit # None => active[k] < limit

HasRate(r, k) ==
    LET limit == captured[r][k].requests_per_minute IN limit # None => Len(Recent(k)) < limit

Fits(r, k) == HasSlot(r, k) /\ HasRate(r, k)

(* The buckets looked at: the tool's is not once the endpoint's rejects. *)
LookedAt(r) ==
    IF Endpoint \in Specs(r) /\ ~Fits(r, Endpoint) THEN {Endpoint} ELSE Specs(r)

-----------------------------------------------------------------------------
(* The request arrives and captures runtime.config. *)
Capture(r) ==
    /\ pc[r] = "idle"
    /\ \E t \in Tools \cup {None} : tool' = [tool EXCEPT ![r] = t]
    /\ captured' = [captured EXCEPT ![r] = config]
    /\ pc' = [pc EXCEPT ![r] = "captured"]
    /\ UNCHANGED <<config, now, buckets, keys>>

Forget(r) ==
    /\ tool' = [tool EXCEPT ![r] = None]
    /\ captured' = [captured EXCEPT ![r] = None]
    /\ keys' = [keys EXCEPT ![r] = {}]

(* It leaves before it reaches the limiter, or no limit applies to it. *)
Bypass(r) ==
    /\ pc[r] = "captured"
    /\ pc' = [pc EXCEPT ![r] = "idle"]
    /\ Forget(r)
    /\ UNCHANGED <<config, now, buckets>>

Reject(r) ==
    /\ pc[r] = "captured"
    /\ \E k \in Specs(r) : ~Fits(r, k)
    /\ timestamps' = [k \in Keys |-> IF k \in LookedAt(r) THEN Recent(k) ELSE timestamps[k]]
    /\ pc' = [pc EXCEPT ![r] = "rejected"]
    /\ UNCHANGED <<config, now, active, history, tool, captured, keys>>

Admit(r) ==
    /\ pc[r] = "captured"
    /\ Specs(r) # {}
    /\ \A k \in Specs(r) : Fits(r, k)
    /\ LET counted == {k \in Specs(r) : captured[r][k].max_concurrent # None}
           rated   == {k \in Specs(r) : captured[r][k].requests_per_minute # None}
       IN  /\ active' = [k \in Keys |-> IF k \in counted THEN active[k] + 1 ELSE active[k]]
           /\ timestamps' = [k \in Keys |-> IF k \in rated THEN Append(Recent(k), now)
                                           ELSE IF k \in Specs(r) THEN Recent(k)
                                           ELSE timestamps[k]]
           /\ history' = [k \in Keys |->
                IF k \in rated
                THEN Append(history[k],
                            [at |-> now, limit |-> captured[r][k].requests_per_minute])
                ELSE history[k]]
           /\ keys' = [keys EXCEPT ![r] = counted]
    /\ pc' = [pc EXCEPT ![r] = "held"]
    /\ UNCHANGED <<config, now, tool, captured>>

(* Mutant: a second release is not recognised as one. *)
ReleaseEachTime(r) ==
    /\ pc[r] \in {"held", "released"}
    /\ active' = [k \in Keys |->
                    IF k \in keys[r] /\ active[k] > 0 THEN active[k] - 1 ELSE active[k]]
    /\ pc' = [pc EXCEPT ![r] = "released"]
    /\ UNCHANGED <<config, now, timestamps, history, tool, captured, keys>>

(* LimitLease.release, by the response's iterator, by the handler's        *)
(* exception path, or by both: only the first one counts.                  *)
Release(r) ==
    /\ pc[r] \in {"held", "released"}
    /\ active' = [k \in Keys |->
                    IF pc[r] = "held" /\ k \in keys[r] /\ active[k] > 0
                    THEN active[k] - 1 ELSE active[k]]
    /\ pc' = [pc EXCEPT ![r] = "released"]
    /\ UNCHANGED <<config, now, timestamps, history, tool, captured, keys>>

(* The request is over. *)
End(r) ==
    /\ pc[r] \in {"rejected", "released"}
    /\ pc' = [pc EXCEPT ![r] = "idle"]
    /\ Forget(r)
    /\ UNCHANGED <<config, now, buckets>>

(* A reload changes limits and tool_limits in place. *)
Reconfigure ==
    /\ config' \in Configs
    /\ UNCHANGED <<now, buckets, requests>>

Tick ==
    /\ now < Horizon
    /\ now' = now + 1
    /\ UNCHANGED <<config, buckets, requests>>

Init ==
    /\ config \in Configs
    /\ now = 0
    /\ active = [k \in Keys |-> 0]
    /\ timestamps = [k \in Keys |-> <<>>]
    /\ pc = [r \in Requests |-> "idle"]
    /\ tool = [r \in Requests |-> None]
    /\ captured = [r \in Requests |-> None]
    /\ keys = [r \in Requests |-> {}]
    /\ history = [k \in Keys |-> <<>>]

Next ==
    \/ \E r \in Requests : Capture(r) \/ Bypass(r) \/ Reject(r) \/ Admit(r) \/ Release(r) \/ End(r)
    \/ Reconfigure
    \/ Tick

Spec == Init /\ [][Next]_vars

-----------------------------------------------------------------------------
(* Properties. *)

(* The requests whose lease counts against k. *)
Holders(k) == {r \in Requests : pc[r] = "held" /\ k \in keys[r]}

TypeOK ==
    /\ config \in Configs
    /\ now \in 0 .. Horizon
    /\ active \in [Keys -> Nat]
    /\ timestamps \in [Keys -> Seq(0 .. Horizon)]
    /\ pc \in [Requests -> {"idle", "captured", "held", "rejected", "released"}]
    /\ tool \in [Requests -> Tools \cup {None}]
    /\ captured \in [Requests -> Configs \cup {None}]
    /\ keys \in [Requests -> SUBSET Keys]

(* A bucket counts the leases that hold a slot of it, neither more nor     *)
(* fewer: reloads that change which keys are limited, rejections by the    *)
(* second of two limits and repeated releases neither leak nor free one.   *)
SlotsAreAccountedFor == \A k \in Keys : active[k] = Cardinality(Holders(k))

(* The requests in flight on k whose own limit is no higher than r's. *)
Peers(r, k) ==
    {q \in Holders(k) : captured[q][k].max_concurrent <= captured[r][k].max_concurrent}

(* At most n requests are in flight that were admitted under a limit of n  *)
(* or less: a reload between capture and admission, or in mid-flight,      *)
(* never lets a request join more than its own snapshot allows, and one    *)
(* that keeps the limits makes them hold: active <= max_concurrent.        *)
LoadFitsLimits ==
    \A k \in Keys : \A r \in Holders(k) :
        Cardinality(Peers(r, k)) <= captured[r][k].max_concurrent

(* The admissions of the window of one minute that ends at t. *)
InWindow(k, t) ==
    {i \in DOMAIN history[k] : history[k][i].at <= t /\ t < history[k][i].at + Window}

(* Every window of a minute, wherever it begins, has at most the           *)
(* admissions that the limit of the latest of them allows.                 *)
EveryWindowFits ==
    \A k \in Keys, t \in 0 .. Horizon :
        \A i \in InWindow(k, t) :
            (\A j \in InWindow(k, t) : j <= i) =>
                Cardinality(InWindow(k, t)) <= history[k][i].limit

(* A request is rejected only while the slots are really taken or the last *)
(* minute really was full, judged by what happened and not by the bucket.  *)
RejectionsAreDue ==
    [][\A r \in Requests : pc[r] = "captured" /\ pc'[r] = "rejected" =>
        \E k \in Specs(r) :
            \/ /\ captured[r][k].max_concurrent # None
               /\ Cardinality(Holders(k)) >= captured[r][k].max_concurrent
            \/ /\ captured[r][k].requests_per_minute # None
               /\ Cardinality(InWindow(k, now)) >= captured[r][k].requests_per_minute]_vars
=============================================================================
