-------------------------------- MODULE Reload --------------------------------
(***************************************************************************)
(* Hot reload: ConfigWatcher (mcp_router/core/config_loader.py) polls the  *)
(* configuration file and runs MCPRouter.apply_configuration, which drains *)
(* the endpoints a new file removes or changes, one after another, and     *)
(* then publishes the new registry, while requests, starts, exits, the     *)
(* idle sweep, legacy sessions and the shutdown of lifespan go on.         *)
(*                                                                         *)
(* Each endpoint is seen as EndpointLifecycle sees it.  An EndpointRuntime *)
(* is named by its path and by the number of the snapshot it was made for. *)
(* Its lock is held from a start's beginning to its end and by the sweep   *)
(* while it stops a process; a retirement waits for it.  Only the watcher  *)
(* calls apply_configuration: _reload_lock is never contended.             *)
(*                                                                         *)
(* An endpoint's configuration is its core, any part of which makes a      *)
(* change runtime-affecting; what is replaced in place (policy, security,  *)
(* limits, headers) is one value of the file, copied to every endpoint.    *)
(***************************************************************************)
EXTENDS Naturals, FiniteSets

CONSTANTS
    Paths,       \* endpoint paths, numbers because sorted() orders them
    Cores,       \* runtime-affecting parts of an endpoint's configuration
    Port,        \* the readiness port of each managed core
    Contents,    \* what may be written to the file; none for a missing file
    Initial,     \* what the file may be when the program starts
    Requests,
    None,        \* Python's None
    Missing,     \* no file
    MaxWrites,   \* bound: writes to the file after the program started
    Environment  \* the optional events this instance includes, see Events

Events == {"write", "close-fails", "shutdown", "legacy", "idle"}

Managed == DOMAIN Port

Snapshots == 1 .. MaxWrites + 1

Ids == Paths \X Snapshots

ASSUME ReloadAssumption ==
    /\ Paths \subseteq Nat /\ IsFiniteSet(Paths)
    /\ Managed \subseteq Cores
    /\ \A c \in Contents : c.endpoints \in [Paths -> Cores \cup {None}]
    /\ Initial \subseteq Contents \cup {Missing}
    /\ MaxWrites \in Nat
    /\ Environment \subseteq Events

(* None is none of the values it stands in for. *)
ASSUME NoneAssumption == None \notin Cores \cup Contents \cup Ids \cup Nat

VARIABLES
    file,      \* the file: its content and mtime
    seen,      \* ConfigWatcher._last_mtime
    watcher,   \* where the watcher is
    candidate, \* the configuration apply_configuration is given
    todo,      \* its retired paths that are still to be drained
    registry,  \* router._runtimes: the snapshot each path's runtime is from
    runtime,   \* every EndpointRuntime
    published, \* router.security_config and what is replaced together with it
    snapshots, \* publications so far
    applied,   \* ghost: the configuration published last
    abandoned, \* ghost: paths drained by a reload that failed afterwards
    request,   \* what each request handler is at, and on which runtime
    sessions,  \* runtimes with an open legacy session
    sweep,     \* the runtime whose process the idle sweep stops
    main,      \* where lifespan is
    cleaning   \* the paths its cleanup has still to drain

fileVars    == <<file, seen>>
reloadVars  == <<watcher, candidate, todo, abandoned>>
snapshotVars == <<registry, published, snapshots, applied>>
mainVars    == <<main, cleaning>>
vars == <<fileVars, reloadVars, snapshotVars, runtime, request, sessions, sweep, mainVars>>

-----------------------------------------------------------------------------
NoRuntime == [core |-> None, inPlace |-> None, phase |-> "STOPPED",
              spawned |-> FALSE, live |-> FALSE]

Registered(id) == registry[id[1]] = id[2]

Current(p) == <<p, registry[p]>>

Created(id) == runtime[id].core # None

IsManaged(id) == runtime[id].core \in Managed

(* runtime.active_leases *)
Holders(id) == {r \in Requests : request[r].at = "leased" /\ request[r].on = id}

Starters(id) == {r \in Requests : request[r].at = "starting" /\ request[r].on = id}

Listed == {p \in Paths : registry[p] # None}

(* Someone other than a retirement holds runtime.lock. *)
Locked(id) == runtime[id].phase = "STARTING" \/ sweep = id

SetPhase(id, phase) ==
    runtime' = [runtime EXCEPT ![id].phase = phase, ![id].spawned = FALSE]

Idle == [at |-> "idle", on |-> None]

At(r, place) == request' = [request EXCEPT ![r].at = place]

Leave(r) == request' = [request EXCEPT ![r] = Idle]

-----------------------------------------------------------------------------
(* load_router_config and apply_configuration. *)

(* The file validates: it gives no port to two endpoints.  One that does   *)
(* not parse, or breaks another rule, is rejected in the same way.         *)
Loads(content) ==
    /\ content # Missing
    /\ \A p, q \in Paths :
        /\ p # q
        /\ content.endpoints[p] \in Managed /\ content.endpoints[q] \in Managed
        => Port[content.endpoints[p]] # Port[content.endpoints[q]]

(* Paths that the configuration drops or changes in a runtime-affecting way. *)
Retired(config) ==
    {p \in Listed : config.endpoints[p] # runtime[Current(p)].core}

(* A new EndpointRuntime: a remote one has nothing to start. *)
FromConfig(core, inPlace) ==
    [core |-> core, inPlace |-> inPlace, spawned |-> FALSE, live |-> FALSE,
     phase |-> IF core \in Managed THEN "STOPPED" ELSE "RUNNING"]

(* The publication: no await divides it. *)
Publish(config) ==
    /\ snapshots' = snapshots + 1
    /\ registry' = [p \in Paths |->
                      IF config.endpoints[p] = None THEN None
                      ELSE IF p \in Listed \ Retired(config) THEN registry[p]
                      ELSE snapshots']
    /\ runtime' = [id \in Ids |->
                     IF registry'[id[1]] # id[2] THEN runtime[id]
                     ELSE IF id[2] = snapshots'
                     THEN FromConfig(config.endpoints[id[1]], config.inPlace)
                     ELSE [runtime[id] EXCEPT !.inPlace = config.inPlace]]
    /\ published' = config.inPlace
    /\ applied' = config
    /\ abandoned' = abandoned \ Retired(config)

-----------------------------------------------------------------------------
(* The file, changed by its owner at any time. *)

Write ==
    /\ "write" \in Environment
    /\ file.mtime < MaxWrites
    /\ \E content \in Contents \cup {Missing} :
        file' = [content |-> content, mtime |-> file.mtime + 1]
    /\ UNCHANGED <<seen, reloadVars, snapshotVars, runtime, request, sessions, sweep, mainVars>>

-----------------------------------------------------------------------------
(* ConfigWatcher.start, inside the first half of lifespan. *)

(* Without a file the gateway starts empty and polls for one. *)
StartWithoutFile ==
    /\ watcher = "boot"
    /\ file.content = Missing
    /\ watcher' = "poll"
    /\ main' = "up"
    /\ UNCHANGED <<fileVars, candidate, todo, abandoned, snapshotVars, runtime,
                   request, sessions, sweep, cleaning>>

StartLoads ==
    /\ watcher = "boot"
    /\ Loads(file.content)
    /\ Publish(file.content)
    /\ watcher' = "stamp"
    /\ UNCHANGED <<fileVars, candidate, todo, request, sessions, sweep, mainVars>>

(* The mtime is read after the content: it may be that of a later write. *)
StartStamps ==
    /\ watcher = "stamp"
    /\ file.content # Missing
    /\ seen' = file.mtime
    /\ watcher' = "poll"
    /\ main' = "up"
    /\ UNCHANGED <<file, candidate, todo, abandoned, snapshotVars, runtime,
                   request, sessions, sweep, cleaning>>

(* The file is invalid, or vanishes before its mtime is read: start raises *)
(* and lifespan goes on to its finally block.                              *)
StartFails ==
    /\ \/ watcher = "boot" /\ file.content # Missing /\ ~Loads(file.content)
       \/ watcher = "stamp" /\ file.content = Missing
    /\ watcher' = "done"
    /\ main' = "joined"
    /\ UNCHANGED <<fileVars, candidate, todo, abandoned, snapshotVars, runtime,
                   request, sessions, sweep, cleaning>>

-----------------------------------------------------------------------------
(* ConfigWatcher._poll_loop, _reload_if_changed and apply_configuration. *)

Poll ==
    /\ watcher = "poll"
    /\ file.content # Missing
    /\ file.mtime # seen
    /\ seen' = file.mtime
    /\ watcher' = "load"
    /\ UNCHANGED <<file, candidate, todo, abandoned, snapshotVars, runtime,
                   request, sessions, sweep, mainVars>>

(* Last known good: nothing but the mtime has changed. *)
LoadRejected ==
    /\ watcher = "load"
    /\ ~Loads(file.content)
    /\ watcher' = "poll"
    /\ UNCHANGED <<fileVars, candidate, todo, abandoned, snapshotVars, runtime,
                   request, sessions, sweep, mainVars>>

LoadApplies ==
    /\ watcher = "load"
    /\ Loads(file.content)
    /\ Retired(file.content) = {}
    /\ Publish(file.content)
    /\ watcher' = "poll"
    /\ UNCHANGED <<fileVars, candidate, todo, request, sessions, sweep, mainVars>>

(* Mutant: what is replaced in place does not wait for the drains. *)
LoadRetiresAndReplaces ==
    /\ watcher = "load"
    /\ Loads(file.content)
    /\ Retired(file.content) # {}
    /\ candidate' = file.content
    /\ todo' = Retired(file.content)
    /\ published' = file.content.inPlace
    /\ watcher' = "mark"
    /\ UNCHANGED <<fileVars, abandoned, registry, snapshots, applied, runtime, request,
                   sessions, sweep, mainVars>>

LoadRetires ==
    /\ watcher = "load"
    /\ Loads(file.content)
    /\ Retired(file.content) # {}
    /\ candidate' = file.content
    /\ todo' = Retired(file.content)
    /\ watcher' = "mark"
    /\ UNCHANGED <<fileVars, abandoned, snapshotVars, runtime, request, sessions,
                   sweep, mainVars>>

Lowest(paths) == CHOOSE p \in paths : \A q \in paths : p <= q

(* The runtime being retired: sorted(retired_paths), one after another. *)
Retiring == Current(Lowest(todo))

(* drain_and_stop makes it non-activatable once it has the lock ... *)
MarkDraining ==
    /\ watcher = "mark"
    /\ ~Locked(Retiring)
    /\ SetPhase(Retiring, "DRAINING")
    /\ watcher' = "drain"
    /\ UNCHANGED <<fileVars, candidate, todo, abandoned, snapshotVars, request,
                   sessions, sweep, mainVars>>

(* ... waits for its leases ... *)
Drained ==
    /\ watcher = "drain"
    /\ Holders(Retiring) = {}
    /\ watcher' = "stop"
    /\ UNCHANGED <<fileVars, candidate, todo, abandoned, snapshotVars, runtime,
                   request, sessions, sweep, mainVars>>

(* Mutant: the exit of a killed process is not awaited. *)
StoppedAtOnce ==
    /\ watcher = "stop"
    /\ watcher' = "close"
    /\ UNCHANGED <<fileVars, candidate, todo, abandoned, snapshotVars, runtime,
                   request, sessions, sweep, mainVars>>

(* ... and for the exit of its process. *)
Stopped ==
    /\ watcher = "stop"
    /\ ~runtime[Retiring].live
    /\ watcher' = "close"
    /\ UNCHANGED <<fileVars, candidate, todo, abandoned, snapshotVars, runtime,
                   request, sessions, sweep, mainVars>>

ClosedSessions == {id \in sessions : id[1] # Lowest(todo)}

(* Mutant: the mtime is read once more when the reload is done. *)
ClosedStamps ==
    /\ watcher = "close"
    /\ sessions' = ClosedSessions
    /\ todo' = todo \ {Lowest(todo)}
    /\ IF todo' # {}
       THEN watcher' = "mark" /\ UNCHANGED <<candidate, abandoned, snapshotVars, runtime>>
       ELSE watcher' = "poll" /\ candidate' = None /\ Publish(candidate)
    /\ seen' = file.mtime
    /\ UNCHANGED <<file, request, sweep, mainVars>>

(* close_endpoint; after the last one, with no await between, publication. *)
Closed ==
    /\ watcher = "close"
    /\ sessions' = ClosedSessions
    /\ todo' = todo \ {Lowest(todo)}
    /\ IF todo' # {}
       THEN watcher' = "mark" /\ UNCHANGED <<candidate, abandoned, snapshotVars, runtime>>
       ELSE watcher' = "poll" /\ candidate' = None /\ Publish(candidate)
    /\ UNCHANGED <<fileVars, request, sweep, mainVars>>

(* Closing an upstream raises: the reload ends and its mtime is not tried  *)
(* again.  _poll_loop catches OSError, RuntimeError and ValueError; any    *)
(* other exception ends the poll task.                                     *)
CloseFails ==
    /\ "close-fails" \in Environment
    /\ watcher = "close"
    /\ sessions' = ClosedSessions
    /\ watcher' \in {"poll", "crashed"}
    /\ abandoned' = abandoned \cup (Retired(candidate) \ (todo \ {Lowest(todo)}))
    /\ candidate' = None
    /\ todo' = {}
    /\ UNCHANGED <<fileVars, snapshotVars, runtime, request, sweep, mainVars>>

-----------------------------------------------------------------------------
(* Starts, exits and restarts of a managed endpoint: see EndpointRuntime. *)

Launch(id) ==
    /\ runtime[id].phase = "STARTING"
    /\ ~runtime[id].spawned
    /\ runtime' = [runtime EXCEPT ![id].spawned = TRUE, ![id].live = TRUE]
    /\ UNCHANGED <<fileVars, reloadVars, snapshotVars, request, sessions, sweep, mainVars>>

(* The process is ready; the request that started it gets its lease. *)
Serve(id) ==
    /\ runtime[id].phase = "STARTING"
    /\ runtime[id].live
    /\ SetPhase(id, "RUNNING")
    /\ request' = [r \in Requests |->
                     IF r \in Starters(id) THEN [request[r] EXCEPT !.at = "leased"] ELSE request[r]]
    /\ UNCHANGED <<fileVars, reloadVars, snapshotVars, sessions, sweep, mainVars>>

(* A start fails, or its request is cancelled, once its process is gone. *)
StartEnds(id) ==
    /\ runtime[id].phase = "STARTING"
    /\ ~runtime[id].live
    /\ \/ SetPhase(id, "FAILED")
       \/ Starters(id) # {} /\ SetPhase(id, "STOPPED")
    /\ request' = [r \in Requests |-> IF r \in Starters(id) THEN Idle ELSE request[r]]
    /\ UNCHANGED <<fileVars, reloadVars, snapshotVars, sessions, sweep, mainVars>>

Die(id) ==
    /\ runtime[id].live
    /\ runtime' = [runtime EXCEPT ![id].live = FALSE]
    /\ UNCHANGED <<fileVars, reloadVars, snapshotVars, request, sessions, sweep, mainVars>>

(* The exit monitor reports a process that died while RUNNING. *)
ExitReported(id) ==
    /\ IsManaged(id)
    /\ runtime[id].phase = "RUNNING"
    /\ ~runtime[id].live
    /\ SetPhase(id, "FAILED")
    /\ UNCHANGED <<fileVars, reloadVars, snapshotVars, request, sessions, sweep, mainVars>>

(* The restart loop of a failed runtime. *)
Restart(id) ==
    /\ IsManaged(id)
    /\ runtime[id].phase = "FAILED"
    /\ SetPhase(id, "STARTING")
    /\ UNCHANGED <<fileVars, reloadVars, snapshotVars, request, sessions, sweep, mainVars>>

-----------------------------------------------------------------------------
(* Requests. *)

(* catch_all_proxy looks the path up; the body and the limits are awaited. *)
Capture(r) ==
    /\ main = "up"
    /\ request[r].at = "idle"
    /\ \E p \in Listed : request' = [request EXCEPT ![r] = [at |-> "captured", on |-> Current(p)]]
    /\ UNCHANGED <<fileVars, reloadVars, snapshotVars, runtime, sessions, sweep, mainVars>>

Grant(r) ==
    LET id == request[r].on IN
    /\ request[r].at = "captured"
    /\ main = "up"
    /\ runtime[id].phase = "RUNNING"
    /\ IsManaged(id) => runtime[id].live
    /\ At(r, "leased")
    /\ UNCHANGED <<fileVars, reloadVars, snapshotVars, runtime, sessions, sweep, mainVars>>

(* On demand; one that waited for the lock may find the process dead. *)
Activate(r) ==
    LET id == request[r].on IN
    /\ request[r].at = "captured"
    /\ main = "up"
    /\ IsManaged(id)
    /\ \/ runtime[id].phase = "STOPPED"
       \/ runtime[id].phase = "RUNNING" /\ ~runtime[id].live
    /\ SetPhase(id, "STARTING")
    /\ At(r, "starting")
    /\ UNCHANGED <<fileVars, reloadVars, snapshotVars, sessions, sweep, mainVars>>

(* 503 for a runtime that drains or failed, or at shutdown; or a client    *)
(* that gives up.                                                          *)
Reject(r) ==
    /\ request[r].at = "captured"
    /\ Leave(r)
    /\ UNCHANGED <<fileVars, reloadVars, snapshotVars, runtime, sessions, sweep, mainVars>>

Finish(r) ==
    /\ request[r].at = "leased"
    /\ Leave(r)
    /\ UNCHANGED <<fileVars, reloadVars, snapshotVars, runtime, sessions, sweep, mainVars>>

(* Mutant: a session is opened whatever the runtime's state. *)
OpenSessionAnyway(r) ==
    /\ "legacy" \in Environment
    /\ request[r].at = "captured"
    /\ sessions' = sessions \cup {request[r].on}
    /\ Leave(r)
    /\ UNCHANGED <<fileVars, reloadVars, snapshotVars, runtime, sweep, mainVars>>

(* A legacy GET takes no lease: only DRAINING keeps a retired runtime from *)
(* being given a session.                                                  *)
OpenSession(r) ==
    /\ "legacy" \in Environment
    /\ request[r].at = "captured"
    /\ runtime[request[r].on].phase # "DRAINING"
    /\ sessions' = sessions \cup {request[r].on}
    /\ Leave(r)
    /\ UNCHANGED <<fileVars, reloadVars, snapshotVars, runtime, sweep, mainVars>>

(* Its client leaves, or it expires. *)
CloseSession ==
    /\ \E id \in sessions : sessions' = sessions \ {id}
    /\ UNCHANGED <<fileVars, reloadVars, snapshotVars, runtime, request, sweep, mainVars>>

-----------------------------------------------------------------------------
(* idle_timeout_checker, which stops one process at a time. *)

SweepDrains(id) ==
    /\ "idle" \in Environment
    /\ main = "up"
    /\ sweep = None
    /\ Registered(id) /\ IsManaged(id)
    /\ runtime[id].phase = "RUNNING" /\ runtime[id].live
    /\ Holders(id) = {}
    /\ SetPhase(id, "DRAINING")
    /\ sweep' = id
    /\ UNCHANGED <<fileVars, reloadVars, snapshotVars, request, sessions, mainVars>>

(* Mutant: the runtime is left as a retirement leaves it. *)
SweepRetires ==
    /\ sweep # None
    /\ ~runtime[sweep].live
    /\ sweep' = None
    /\ UNCHANGED <<fileVars, reloadVars, snapshotVars, runtime, request, sessions, mainVars>>

SweepRests ==
    /\ sweep # None
    /\ ~runtime[sweep].live
    /\ SetPhase(sweep, "STOPPED")
    /\ sweep' = None
    /\ UNCHANGED <<fileVars, reloadVars, snapshotVars, request, sessions, mainVars>>

-----------------------------------------------------------------------------
(* The finally block of lifespan. *)

(* No new work; the idle checker is cancelled, wherever it is. *)
BeginShutdown ==
    /\ "shutdown" \in Environment
    /\ main = "up"
    /\ main' = "joined"
    /\ sweep' = None
    /\ UNCHANGED <<fileVars, reloadVars, snapshotVars, runtime, request, sessions, cleaning>>

(* watcher.stop cancels the reload at whatever it awaits.  It re-raises    *)
(* what ended the poll task, and the rest of the block is skipped.         *)
StopWatcher ==
    /\ main = "joined"
    /\ IF watcher = "crashed"
       THEN main' = "aborted" /\ UNCHANGED watcher
       ELSE main' = "stopped" /\ watcher' = "done"
    /\ UNCHANGED <<fileVars, candidate, todo, abandoned, snapshotVars, runtime,
                   request, sessions, sweep, cleaning>>

(* Mutant: a runtime that a reload was draining is taken to be down. *)
BeginCleanupOfActive ==
    /\ main = "stopped"
    /\ sessions' = {}
    /\ cleaning' = {p \in Listed : /\ IsManaged(Current(p))
                                   /\ runtime[Current(p)].phase # "DRAINING"}
    /\ main' = "mark"
    /\ UNCHANGED <<fileVars, reloadVars, snapshotVars, runtime, request, sweep>>

(* close_all, and what cleanup has to drain: the registry of that moment. *)
BeginCleanup ==
    /\ main = "stopped"
    /\ sessions' = {}
    /\ cleaning' = {p \in Listed : IsManaged(Current(p))}
    /\ main' = "mark"
    /\ UNCHANGED <<fileVars, reloadVars, snapshotVars, runtime, request, sweep>>

Cleaning == Current(Lowest(cleaning))

CleanupMarks ==
    /\ main = "mark" /\ cleaning # {}
    /\ ~Locked(Cleaning)
    /\ SetPhase(Cleaning, "DRAINING")
    /\ main' = "drain"
    /\ UNCHANGED <<fileVars, reloadVars, snapshotVars, request, sessions, sweep, cleaning>>

CleanupStops ==
    /\ main = "drain"
    /\ Holders(Cleaning) = {}
    /\ ~runtime[Cleaning].live
    /\ SetPhase(Cleaning, "STOPPED")
    /\ cleaning' = cleaning \ {Lowest(cleaning)}
    /\ main' = "mark"
    /\ UNCHANGED <<fileVars, reloadVars, snapshotVars, request, sessions, sweep>>

CleanupEnds ==
    /\ main = "mark" /\ cleaning = {}
    /\ main' = "down"
    /\ UNCHANGED <<fileVars, reloadVars, snapshotVars, runtime, request, sessions,
                   sweep, cleaning>>

-----------------------------------------------------------------------------
Init ==
    /\ \E content \in Initial : file = [content |-> content, mtime |-> 0]
    /\ seen = None
    /\ watcher = "boot"
    /\ candidate = None /\ todo = {} /\ abandoned = {}
    /\ registry = [p \in Paths |-> None]
    /\ runtime = [id \in Ids |-> NoRuntime]
    /\ published = None /\ snapshots = 0 /\ applied = None
    /\ request = [r \in Requests |-> Idle]
    /\ sessions = {}
    /\ sweep = None
    /\ main = "starting"
    /\ cleaning = {}

WatcherStep ==
    \/ StartWithoutFile \/ StartLoads \/ StartStamps \/ StartFails
    \/ Poll \/ LoadRejected \/ LoadApplies \/ LoadRetires
    \/ MarkDraining \/ Drained \/ Stopped \/ Closed \/ CloseFails

StartStep(id) == Launch(id) \/ Serve(id) \/ StartEnds(id)

MainStep == StopWatcher \/ BeginCleanup \/ CleanupMarks \/ CleanupStops \/ CleanupEnds

Running ==
    \/ Write
    \/ WatcherStep
    \/ \E id \in Ids : StartStep(id) \/ Die(id) \/ ExitReported(id) \/ Restart(id) \/ SweepDrains(id)
    \/ \E r \in Requests : \/ Capture(r) \/ Grant(r) \/ Activate(r) \/ Reject(r) \/ Finish(r)
                          \/ OpenSession(r)
    \/ CloseSession \/ SweepRests
    \/ BeginShutdown \/ MainStep

Over == main \in {"down", "aborted"}

Next ==
    \/ ~Over /\ Running
    \/ Over /\ UNCHANGED vars

Spec == Init /\ [][Next]_vars

-----------------------------------------------------------------------------
(* Properties. *)

TypeOK ==
    /\ file \in [content : Contents \cup {Missing}, mtime : 0 .. MaxWrites]
    /\ seen \in 0 .. MaxWrites \cup {None}
    /\ watcher \in {"boot", "stamp", "poll", "load", "mark", "drain", "stop", "close",
                    "crashed", "done"}
    /\ candidate \in Contents \cup {None}
    /\ todo \in SUBSET Paths
    /\ registry \in [Paths -> Snapshots \cup {None}]
    /\ runtime \in [Ids -> [core : Cores \cup {None}, inPlace : {c.inPlace : c \in Contents} \cup {None},
                            phase : {"STOPPED", "STARTING", "RUNNING", "DRAINING", "FAILED"},
                            spawned : BOOLEAN, live : BOOLEAN]]
    /\ published \in {c.inPlace : c \in Contents} \cup {None}
    /\ snapshots \in 0 .. MaxWrites + 1
    /\ applied \in Contents \cup {None}
    /\ abandoned \in SUBSET Paths
    /\ request \in [Requests -> [at : {"idle", "captured", "starting", "leased"}, on : Ids \cup {None}]]
    /\ sessions \in SUBSET Ids
    /\ sweep \in Ids \cup {None}
    /\ main \in {"starting", "up", "joined", "stopped", "mark", "drain", "down", "aborted"}
    /\ cleaning \in SUBSET Paths

(* docs/configuration.md:219, "a replacement that reuses the same port     *)
(* cannot race or orphan a process from the old configuration": no two     *)
(* live processes have one port, whatever was renamed, swapped or removed. *)
PortsAreExclusive ==
    \A i, j \in Ids :
        i # j /\ runtime[i].live /\ runtime[j].live => Port[runtime[i].core] # Port[runtime[j].core]

(* docs/configuration.md:219, "Request handlers therefore cannot observe a *)
(* partially applied registry": the registry, every runtime's              *)
(* configuration and the security snapshot are those of one file, also     *)
(* while a reload drains, after one that failed and after a rejected file. *)
OneSnapshot ==
    applied # None =>
        /\ published = applied.inPlace
        /\ \A p \in Paths :
            IF p \in Listed
            THEN /\ runtime[Current(p)].core = applied.endpoints[p]
                 /\ runtime[Current(p)].inPlace = applied.inPlace
            ELSE applied.endpoints[p] = None

(* A runtime that the registry has dropped has no process, no lease and no *)
(* legacy session, although requests may still refer to it.                *)
RetiredIsGone ==
    \A id \in Ids : Created(id) /\ ~Registered(id) =>
        /\ runtime[id].phase = "DRAINING" /\ ~runtime[id].live
        /\ Holders(id) = {} /\ Starters(id) = {}
        /\ id \notin sessions

(* An endpoint of the registry turns requests away as DRAINING only while  *)
(* the sweep stops it, a reload retires it or the gateway shuts down; one  *)
(* that a failed reload drained stays so until a later one replaces it.    *)
DrainingEnds ==
    main = "up" =>
        \A p \in Listed : runtime[Current(p)].phase = "DRAINING" =>
            \/ sweep = Current(p)
            \/ watcher \in {"mark", "drain", "stop", "close"} /\ p \in Retired(candidate)
            \/ p \in abandoned

(* When lifespan has ended no process it started is alive, and none is     *)
(* leased or being started, whatever reload its shutdown interrupted.      *)
(* Only the exception of a crashed poll task keeps it from ending so.      *)
NothingSurvivesShutdown ==
    main = "down" =>
        \A id \in Ids : IsManaged(id) =>
            ~runtime[id].live /\ Holders(id) = {} /\ Starters(id) = {}

-----------------------------------------------------------------------------
(* Fairness.  Tasks run when they are ready, a start ends within its       *)
(* timeout, SIGKILL ends a process and upstream_timeout ends a response.   *)
(* A retirement that waits for a lock gets its turn, since asyncio.Lock is *)
(* first come, first served: strong fairness, as others hold it in between.*)
Up == ~Over

FairSpec ==
    /\ Spec
    /\ WF_vars(Up /\ WatcherStep)
    /\ SF_vars(Up /\ MarkDraining)
    /\ WF_vars(Up /\ SweepRests)
    /\ WF_vars(Up /\ MainStep)
    /\ \A id \in Ids :
        /\ WF_vars(Up /\ StartStep(id))
        /\ WF_vars(Up /\ sweep = id /\ Die(id))
        /\ WF_vars(Up /\ watcher = "stop" /\ id = Retiring /\ Die(id))
        /\ WF_vars(Up /\ main = "drain" /\ id = Cleaning /\ Die(id))
    /\ \A r \in Requests : WF_vars(Up /\ Finish(r))

(* Once the gateway polls, a valid file it has not seen is applied, unless *)
(* it is written again, the gateway shuts down or a reload fails: however  *)
(* requests, restarts and exits go on in the endpoints being retired, and  *)
(* whether the file changes while it is read.                              *)
ChangesAreApplied ==
    main = "up" /\ seen # file.mtime /\ Loads(file.content) ~>
        \/ applied = file.content
        \/ ~Loads(file.content) \/ main # "up" \/ abandoned # {} \/ watcher = "crashed"
=============================================================================
