-------------------------- MODULE EndpointLifecycle --------------------------
(***************************************************************************)
(* What one managed endpoint promises to the rest of the gateway, without  *)
(* the lock, the restart loops, the exit monitors and the retirement that  *)
(* bring it about: the RuntimeState of mcp_router/core/runtime.py, the     *)
(* live processes, the requests that hold an upstream lease, and whether   *)
(* the registry still lists the endpoint.                                  *)
(*                                                                         *)
(* EndpointRuntime is the detailed specification that implements this one. *)
(***************************************************************************)
CONSTANTS
    Requests, \* who may hold a lease
    Procs     \* identities of processes

VARIABLES
    phase,    \* the RuntimeState
    live,     \* the live processes
    holders,  \* the requests that hold a lease
    listed    \* the registry lists the endpoint

lifecycle == <<phase, live, holders, listed>>

-----------------------------------------------------------------------------
Init ==
    /\ phase = "STOPPED"
    /\ live = {}
    /\ holders = {}
    /\ listed = TRUE

(* A start begins, on demand or by a restart loop; a retired endpoint is   *)
(* beyond it, and a running one only after its process died.               *)
Activate ==
    /\ phase \in {"STOPPED", "FAILED", "RUNNING"}
    /\ live = {}
    /\ phase' = "STARTING"
    /\ UNCHANGED <<live, holders, listed>>

(* A process is spawned beside no other. *)
Launch ==
    /\ phase = "STARTING"
    /\ live = {}
    /\ \E p \in Procs : live' = {p}
    /\ UNCHANGED <<phase, holders, listed>>

(* The process is ready; the request that started it gets a lease. *)
Serve ==
    /\ phase = "STARTING"
    /\ phase' = "RUNNING"
    /\ \/ UNCHANGED holders
       \/ \E r \in Requests : holders' = holders \cup {r}
    /\ UNCHANGED <<live, listed>>

(* A running endpoint grants a lease on its live process. *)
Grant ==
    /\ phase = "RUNNING"
    /\ live # {}
    /\ \E r \in Requests \ holders : holders' = holders \cup {r}
    /\ UNCHANGED <<phase, live, listed>>

Return ==
    /\ \E r \in holders : holders' = holders \ {r}
    /\ UNCHANGED <<phase, live, listed>>

(* A process exits, signalled or by itself. *)
Die ==
    /\ live # {}
    /\ live' = {}
    /\ UNCHANGED <<phase, holders, listed>>

(* A start that failed or was cancelled, or a process that died while      *)
(* RUNNING: nothing of it is left.                                         *)
Fail ==
    /\ phase \in {"STARTING", "RUNNING"}
    /\ live = {}
    /\ phase' \in IF phase = "STARTING" THEN {"STOPPED", "FAILED"} ELSE {"FAILED"}
    /\ UNCHANGED <<live, holders, listed>>

(* No start is in progress when the endpoint begins to drain. *)
Drain ==
    /\ phase \in {"STOPPED", "FAILED", "RUNNING"}
    /\ phase' = "DRAINING"
    /\ UNCHANGED <<live, holders, listed>>

(* A drained endpoint without process or lease may be activated again ... *)
Rest ==
    /\ phase = "DRAINING"
    /\ live = {} /\ holders = {}
    /\ phase' = "STOPPED"
    /\ UNCHANGED <<live, holders, listed>>

(* ... or is dropped from the registry, for good. *)
Delist ==
    /\ phase = "DRAINING"
    /\ live = {} /\ holders = {}
    /\ listed' = FALSE
    /\ UNCHANGED <<phase, live, holders>>

Next ==
    /\ listed
    /\ \/ Activate \/ Launch \/ Serve \/ Grant \/ Return
       \/ Die \/ Fail \/ Drain \/ Rest \/ Delist

Spec == Init /\ [][Next]_lifecycle
=============================================================================
