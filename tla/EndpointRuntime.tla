--------------------------- MODULE EndpointRuntime ---------------------------
(***************************************************************************)
(* One managed endpoint of the gateway: the EndpointRuntime record of      *)
(* mcp_router/core/runtime.py and every coroutine that acts on it.         *)
(*                                                                         *)
(*   requests     MCPRouter._acquire_upstream_lease, which activates the   *)
(*                process on demand and pins it with an upstream lease     *)
(*   supervisors  ProcessManager._restart_loop                             *)
(*   monitors     ProcessManager._monitor_exit, one per spawned process    *)
(*   Checker      MCPRouter.idle_timeout_checker                           *)
(*   Reload       ConfigWatcher's poll task running apply_configuration    *)
(*   Main         the shutdown half of lifespan                            *)
(*                                                                         *)
(* asyncio is cooperative, so an action is the code between two awaits     *)
(* that may suspend; the label of a task names the await it is suspended   *)
(* at.  Every await of _terminate_locked and of cancel_legacy_tasks is a   *)
(* step of its own, whether or not it finds something to wait for.         *)
(*                                                                         *)
(* runtime.lock is an asyncio.Lock.  A free lock is taken without          *)
(* suspending.  A release wakes the first waiter, and since no later task  *)
(* can overtake a woken waiter, the model hands the lock over directly.    *)
(* _lease_condition guards code that never suspends: it needs no model.    *)
(*                                                                         *)
(* A spawned process and the exit monitor watching it share one identity.  *)
(* A process is "alive" while its returncode is None, that is until the    *)
(* event loop has seen it exit.                                            *)
(***************************************************************************)
EXTENDS Naturals, Sequences, SequencesExt

CONSTANTS
    Requests,    \* request handlers, each serving one request after another
    Supervisors, \* identities of restart tasks
    Procs,       \* identities of processes, and of their exit monitors
    Checker, Reload, Main,
    None,        \* Python's None
    Budgets,     \* restart.max_attempts values, 0 for restart.enabled = false
    Environment  \* the optional events this instance includes, see Events

Events == {"idle", "reconfigure", "retire", "shutdown", "cancel",
           "cancel-teardown", "signal-error", "stall"}

Tasks == Requests \cup Supervisors \cup Procs \cup {Checker, Reload, Main}

ASSUME TasksAssumption ==
    /\ Requests \cap Supervisors = {}
    /\ Requests \cap Procs = {}
    /\ Supervisors \cap Procs = {}
    /\ {Checker, Reload, Main} \cap (Requests \cup Supervisors \cup Procs) = {}
    /\ Checker # Reload /\ Checker # Main /\ Reload # Main
    /\ None \notin Tasks

ASSUME BudgetsAssumption == Budgets \subseteq Nat

ASSUME EnvironmentAssumption == Environment \subseteq Events

VARIABLES
    state,       \* runtime.state
    process,     \* runtime.process
    exitTask,    \* runtime.exit_task
    restartTask, \* runtime.restart_task
    attempts,    \* runtime.restart_attempts
    policy,      \* runtime.config.restart, one of Budgets
    idle,        \* now - last_completed_activity exceeds the idle timeout
    owner,       \* who holds runtime.lock
    waiters,     \* who waits for it, in order
    final,       \* final_state of the _terminate_locked in progress
    pc,          \* the await each task is suspended at
    reserved,    \* _restart_loop's local attempt
    os,          \* whether each process is alive
    servedBy,    \* ghost: the process a request was given its lease on
    registered,  \* router._runtimes still holds this runtime
    accepting    \* router._accepting_work

vars == <<state, process, exitTask, restartTask, attempts, policy, idle, owner,
          waiters, final, pc, reserved, os, servedBy, registered, accepting>>

lockVars    == <<owner, waiters>>
refVars     == <<process, exitTask, restartTask>>
budgetVars  == <<attempts, policy, reserved>>
worldVars   == <<os, servedBy, idle>>
gatewayVars == <<registered, accepting>>

-----------------------------------------------------------------------------
(* Labels. *)

RequestLabels == {"idle", "captured", "qStart", "leased"}
StartLabels == {"spawn", "port", "probe"}
TeardownLabels == {"tTasks", "tTerm", "tKill", "tLogs"}
SupervisorLabels == {"top", "qTop", "sleep", "qAgain", "done"}
MonitorLabels == {"mWait", "qMonitor", "mLogs", "done"}
CheckerLabels == {"cSleep", "qSweep", "qStop", "done"}
DrainLabels == {"qMark", "dWait", "qDrain"}
ReloadLabels == DrainLabels \cup {"watch", "publish", "done"}
MainLabels == DrainLabels \cup {"up", "joined", "stopped", "down"}

Labels == RequestLabels \cup StartLabels \cup TeardownLabels \cup SupervisorLabels
            \cup MonitorLabels \cup CheckerLabels \cup ReloadLabels \cup MainLabels

States == {"STOPPED", "STARTING", "RUNNING", "DRAINING", "FAILED"}

(* A task with one of these labels is suspended inside the lock. *)
HoldingLabels == StartLabels \cup TeardownLabels \cup {"mLogs"}

(* ProcessManager.is_running *)
IsRunning == process # None /\ os[process] = "alive"

(* runtime.active_leases, as the set of requests that hold one *)
Leases == {r \in Requests : pc[r] = "leased"}

(* restart_task is not None and not restart_task.done() *)
Recovering == restartTask # None /\ pc[restartTask] # "done"

Goto(t, label) == pc' = [pc EXCEPT ![t] = label]

-----------------------------------------------------------------------------
(* runtime.lock *)

(* t runs the critical section it was about to enter: either it finds the  *)
(* lock free, or it was waiting and the lock has been handed to it.        *)
Entering(t, want, queued) ==
    \/ pc[t] = want /\ owner = None
    \/ pc[t] = queued /\ owner = t

Hold(t) == owner' = t /\ UNCHANGED waiters

Release ==
    IF waiters = <<>>
    THEN owner' = None /\ UNCHANGED waiters
    ELSE owner' = Head(waiters) /\ waiters' = Tail(waiters)

(* The queue without t, which has been cancelled while it waited. *)
Leave(queue, t) ==
    IF \E i \in DOMAIN queue : queue[i] = t
    THEN RemoveAt(queue, CHOOSE i \in DOMAIN queue : queue[i] = t)
    ELSE queue

(* t finds the lock taken and queues for it. *)
Wait(t, want, queued) ==
    /\ pc[t] = want
    /\ owner # None
    /\ waiters' = Append(waiters, t)
    /\ Goto(t, queued)
    /\ UNCHANGED <<state, refVars, budgetVars, worldVars, gatewayVars, owner, final>>

(* Mutant: a cancelled owner does not pass the lock on. *)
UnlockKeepsLock(t) == owner' = owner /\ waiters' = Leave(waiters, t)

(* t is cancelled at an await: a task that owns the lock, or has just been *)
(* handed it, passes it on; one that waits leaves the queue.               *)
Unlock(t) ==
    IF owner = t
    THEN Release
    ELSE owner' = owner /\ waiters' = Leave(waiters, t)

-----------------------------------------------------------------------------
(* Helpers shared by several coroutines. *)

(* Mutant: the existing restart task is not looked at. *)
ScheduleAgain(pcs, budget) ==
    IF attempts < budget
    THEN \E s \in Supervisors :
            /\ pc[s] = "done"
            /\ restartTask' = s
            /\ pc' = [pcs EXCEPT ![s] = "top"]
    ELSE restartTask' = restartTask /\ pc' = pcs

(* _schedule_restart_if_allowed on a FAILED runtime whose tasks are at pcs *)
Schedule(pcs, budget) ==
    IF attempts < budget /\ ~Recovering
    THEN \E s \in Supervisors :
            /\ pc[s] = "done"
            /\ restartTask' = s
            /\ pc' = [pcs EXCEPT ![s] = "top"]
    ELSE restartTask' = restartTask /\ pc' = pcs

(* _start_locked up to the spawn: any other restart task is cancelled. *)
BeginStart(t) ==
    /\ state # "DRAINING"
    /\ ~(state = "RUNNING" /\ IsRunning)
    /\ state' = "STARTING"
    /\ owner' = t
    /\ waiters' = Leave(waiters, restartTask)
    /\ restartTask' = IF restartTask = t THEN t ELSE None
    /\ pc' = [x \in Tasks |-> IF x = t THEN "spawn"
                             ELSE IF x = restartTask THEN "done" ELSE pc[x]]
    /\ UNCHANGED <<process, exitTask, policy, reserved, worldVars, gatewayVars, final>>

(* _terminate_locked up to its first await: the restart task and the exit  *)
(* monitor are cancelled, unless it is the restart task that runs it.      *)
EnterTerminate(t, target) ==
    /\ owner' = t
    /\ waiters' = Leave(Leave(waiters, restartTask), exitTask)
    /\ restartTask' = IF restartTask = t THEN t ELSE None
    /\ exitTask' = None
    /\ final' = target
    /\ pc' = [x \in Tasks |-> IF x = t THEN "tTasks"
                             ELSE IF x \in {restartTask, exitTask} THEN "done" ELSE pc[x]]
    /\ UNCHANGED <<process, budgetVars, worldVars, gatewayVars>>

(* runtime.acquire_lease on a RUNNING runtime *)
GrantLease(r) ==
    /\ Goto(r, "leased")
    /\ servedBy' = [servedBy EXCEPT ![r] = process]

-----------------------------------------------------------------------------
(* Requests. *)

(* catch_all_proxy looks the runtime up; body and limits are awaited next. *)
Capture(r) ==
    /\ pc[r] = "idle"
    /\ registered
    /\ Goto(r, "captured")
    /\ UNCHANGED <<state, refVars, budgetVars, worldVars, gatewayVars, lockVars, final>>

(* 503: shutting down, draining, failed, or the process is found dead *)
Reject(r) ==
    /\ pc[r] = "captured"
    /\ \/ ~accepting
       \/ state \in {"DRAINING", "FAILED"}
       \/ state = "RUNNING" /\ ~IsRunning
    /\ Goto(r, "idle")
    /\ UNCHANGED <<state, refVars, budgetVars, worldVars, gatewayVars, lockVars, final>>

(* Mutant: a draining runtime still takes on work. *)
AcquireLeaseWhileDraining(r) ==
    /\ pc[r] = "captured"
    /\ accepting /\ state \in {"RUNNING", "DRAINING"} /\ IsRunning
    /\ GrantLease(r)
    /\ UNCHANGED <<state, refVars, budgetVars, os, idle, gatewayVars, lockVars, final>>

AcquireLease(r) ==
    /\ pc[r] = "captured"
    /\ accepting /\ state = "RUNNING" /\ IsRunning
    /\ GrantLease(r)
    /\ UNCHANGED <<state, refVars, budgetVars, os, idle, gatewayVars, lockVars, final>>

MustActivate == accepting /\ state \in {"STOPPED", "STARTING"}

AwaitStart(r) == MustActivate /\ Wait(r, "captured", "qStart")

EnterStart(r) ==
    /\ Entering(r, "captured", "qStart")
    /\ pc[r] = "captured" => MustActivate

(* Mutant: a path that raises does not release the lock. *)
StartRefusedKeepsLock(r) ==
    /\ EnterStart(r)
    /\ state \in {"FAILED", "DRAINING"}
    /\ Goto(r, "idle")
    /\ Hold(r)
    /\ UNCHANGED <<state, refVars, budgetVars, worldVars, gatewayVars, final>>

(* start_managed_server raises: the runtime failed or drains meanwhile. *)
StartRefused(r) ==
    /\ EnterStart(r)
    /\ state \in {"FAILED", "DRAINING"}
    /\ Goto(r, "idle")
    /\ Release
    /\ UNCHANGED <<state, refVars, budgetVars, worldVars, gatewayVars, final>>

(* Someone else has started it meanwhile. *)
StartFound(r) ==
    /\ EnterStart(r)
    /\ state = "RUNNING" /\ IsRunning
    /\ GrantLease(r)
    /\ Release
    /\ UNCHANGED <<state, refVars, budgetVars, os, idle, gatewayVars, final>>

(* Mutant: demand may start a failed runtime. *)
StartOnDemandAfterFailure(r) ==
    /\ EnterStart(r)
    /\ BeginStart(r)
    /\ attempts' = 0

StartOnDemand(r) ==
    /\ EnterStart(r)
    /\ state # "FAILED"
    /\ BeginStart(r)
    /\ attempts' = 0

(* The response is complete, its stream closed, or its request cancelled. *)
Finish(r) ==
    /\ pc[r] = "leased"
    /\ Goto(r, "idle")
    /\ servedBy' = [servedBy EXCEPT ![r] = None]
    /\ idle' = FALSE
    /\ UNCHANGED <<state, refVars, budgetVars, os, gatewayVars, lockVars, final>>

CancelWaiting(r) ==
    /\ "cancel" \in Environment
    /\ pc[r] \in {"captured", "qStart"}
    /\ Goto(r, "idle")
    /\ Unlock(r)
    /\ UNCHANGED <<state, refVars, budgetVars, worldVars, gatewayVars, final>>

(* Cancelled during the spawn (asyncio itself reaps a half-made child) or  *)
(* during readiness: _start_locked tears down what it owns.                *)
CancelStart(r) ==
    /\ "cancel" \in Environment
    /\ pc[r] \in StartLabels
    /\ EnterTerminate(r, "STOPPED")
    /\ UNCHANGED state

(* Cancelled once more, inside that teardown or inside that of a failed    *)
(* start: the exception leaves _terminate_locked where it stands.          *)
CancelTeardown(r) ==
    /\ "cancel-teardown" \in Environment
    /\ pc[r] \in TeardownLabels
    /\ Goto(r, "idle")
    /\ Release
    /\ UNCHANGED <<state, refVars, budgetVars, worldVars, gatewayVars, final>>

-----------------------------------------------------------------------------
(* Starting a process, by a request or by a supervisor that owns the lock. *)

Spawn(t) ==
    /\ pc[t] = "spawn"
    /\ \E p \in Procs :
        /\ os[p] = "dead" /\ pc[p] = "done" /\ p \notin {process, exitTask}
        /\ os' = [os EXCEPT ![p] = "alive"]
        /\ servedBy' = [r \in Requests |-> IF servedBy[r] = p THEN None ELSE servedBy[r]]
        /\ process' = p
        /\ exitTask' = p
        /\ pc' = [pc EXCEPT ![t] = "port", ![p] = "mWait"]
    /\ UNCHANGED <<state, restartTask, budgetVars, idle, gatewayVars, lockVars, final>>

(* _wait_for_port connected, and the process is still there to be probed. *)
PortOpen(t) ==
    /\ pc[t] = "port"
    /\ IsRunning
    /\ Goto(t, "probe")
    /\ UNCHANGED <<state, refVars, budgetVars, worldVars, gatewayVars, lockVars, final>>

(* The probe is answered.  The process may have exited since it answered.  *)
Ready(t) ==
    /\ pc[t] = "probe"
    /\ state' = "RUNNING"
    /\ idle' = FALSE
    /\ \/ t \in Requests /\ GrantLease(t) /\ UNCHANGED restartTask
       \/ /\ t \in Supervisors
          /\ Goto(t, "done")
          /\ restartTask' = IF restartTask = t THEN None ELSE restartTask
          /\ UNCHANGED servedBy
    /\ Release
    /\ UNCHANGED <<process, exitTask, budgetVars, os, gatewayVars, final>>

(* The spawn fails, the process dies before it is ready, or time runs out. *)
StartFails(t) ==
    /\ pc[t] \in StartLabels
    /\ EnterTerminate(t, "FAILED")
    /\ UNCHANGED state

-----------------------------------------------------------------------------
(* _terminate_locked after its tasks are cancelled. *)

(* SIGTERM goes to the process group of a live process. *)
Signal(t) ==
    /\ pc[t] = "tTasks"
    /\ Goto(t, IF IsRunning THEN "tTerm" ELSE "tLogs")
    /\ UNCHANGED <<state, refVars, budgetVars, worldVars, gatewayVars, lockVars, final>>

(* Mutant: the exit of a killed process is not awaited. *)
KillWithoutWait(t) ==
    /\ pc[t] = "tTerm"
    /\ IsRunning
    /\ Goto(t, "tLogs")
    /\ UNCHANGED <<state, refVars, budgetVars, worldVars, gatewayVars, lockVars, final>>

(* It did not exit within _SHUTDOWN_TIMEOUT_SECONDS: SIGKILL. *)
Kill(t) ==
    /\ pc[t] = "tTerm"
    /\ IsRunning
    /\ Goto(t, "tKill")
    /\ UNCHANGED <<state, refVars, budgetVars, worldVars, gatewayVars, lockVars, final>>

Reaped(t) ==
    /\ pc[t] \in {"tTerm", "tKill"}
    /\ ~IsRunning
    /\ Goto(t, "tLogs")
    /\ UNCHANGED <<state, refVars, budgetVars, worldVars, gatewayVars, lockVars, final>>

(* killpg raises an OSError that is logged and swallowed. *)
SignalError(t) ==
    /\ "signal-error" \in Environment
    /\ pc[t] \in {"tTerm", "tKill"}
    /\ IsRunning
    /\ Goto(t, "tLogs")
    /\ UNCHANGED <<state, refVars, budgetVars, worldVars, gatewayVars, lockVars, final>>

(* Where the caller of _terminate_locked goes on. *)
AfterTerminate(t) ==
    CASE t \in Requests    -> "idle"
      [] t \in Supervisors -> "top"
      [] t = Checker       -> "cSleep"
      [] t = Reload        -> "publish"
      [] t = Main          -> "down"

(* The log readers have ended.  After a failed start the caller schedules  *)
(* recovery before it releases the lock.                                   *)
Terminated(t) ==
    /\ pc[t] = "tLogs"
    /\ process' = None
    /\ state' = final
    /\ Release
    /\ LET pcs == [pc EXCEPT ![t] = AfterTerminate(t)] IN
       IF final = "FAILED"
       THEN Schedule(pcs, policy)
       ELSE pc' = pcs /\ UNCHANGED restartTask
    /\ UNCHANGED <<exitTask, budgetVars, worldVars, gatewayVars, final>>

-----------------------------------------------------------------------------
(* Supervisors: _restart_loop. *)

MayRestart == state = "FAILED" /\ attempts < policy

AwaitTop(s) == Wait(s, "top", "qTop")

Reserve(s) ==
    /\ Entering(s, "top", "qTop")
    /\ MayRestart
    /\ attempts' = attempts + 1
    /\ reserved' = [reserved EXCEPT ![s] = attempts + 1]
    /\ Goto(s, "sleep")
    /\ Release
    /\ UNCHANGED <<state, refVars, policy, worldVars, gatewayVars, final>>

(* The backoff is over. *)
AwaitRestart(s) == Wait(s, "sleep", "qAgain")

(* Mutant: an off-by-one denies the last attempt. *)
StillAllowedStrictly(s) == state = "FAILED" /\ reserved[s] < policy

StillAllowed(s) == state = "FAILED" /\ reserved[s] <= policy

Restart(s) ==
    /\ Entering(s, "sleep", "qAgain")
    /\ StillAllowed(s)
    /\ BeginStart(s)
    /\ UNCHANGED attempts

(* Either re-reading of the policy ends the loop. *)
GiveUp(s) ==
    /\ \/ Entering(s, "top", "qTop") /\ ~MayRestart
       \/ Entering(s, "sleep", "qAgain") /\ ~StillAllowed(s)
    /\ Goto(s, "done")
    /\ restartTask' = IF restartTask = s THEN None ELSE restartTask
    /\ Release
    /\ UNCHANGED <<state, process, exitTask, budgetVars, worldVars, gatewayVars, final>>

-----------------------------------------------------------------------------
(* Processes and their exit monitors: _monitor_exit. *)

(* The event loop learns that p has exited. *)
Exit(p) ==
    /\ os[p] = "alive"
    /\ os' = [os EXCEPT ![p] = "dead"]
    /\ UNCHANGED <<state, refVars, budgetVars, servedBy, idle, gatewayVars, lockVars, final, pc>>

AwaitMonitor(p) == os[p] = "dead" /\ Wait(p, "mWait", "qMonitor")

EnterMonitor(p) == os[p] = "dead" /\ Entering(p, "mWait", "qMonitor")

(* The runtime has moved on to another process. *)
MonitorStale(p) ==
    /\ EnterMonitor(p)
    /\ process # p
    /\ Goto(p, "done")
    /\ Release
    /\ UNCHANGED <<state, refVars, budgetVars, worldVars, gatewayVars, final>>

MonitorClears(p) ==
    /\ EnterMonitor(p)
    /\ process = p
    /\ process' = None
    /\ exitTask' = None
    /\ Goto(p, "mLogs")
    /\ Hold(p)
    /\ UNCHANGED <<state, restartTask, budgetVars, worldVars, gatewayVars, final>>

(* Mutant: only an exit during startup counts as a failure. *)
MonitorEndsQuietly(p) ==
    /\ pc[p] = "mLogs"
    /\ LET pcs == [pc EXCEPT ![p] = "done"] IN
       IF state # "STARTING"
       THEN pc' = pcs /\ UNCHANGED <<state, restartTask>>
       ELSE state' = "FAILED" /\ Schedule(pcs, policy)
    /\ Release
    /\ UNCHANGED <<process, exitTask, budgetVars, worldVars, gatewayVars, final>>

(* An exit during DRAINING or STOPPED was asked for; any other is a failure. *)
MonitorEnds(p) ==
    /\ pc[p] = "mLogs"
    /\ LET pcs == [pc EXCEPT ![p] = "done"] IN
       IF state \in {"DRAINING", "STOPPED"}
       THEN pc' = pcs /\ UNCHANGED <<state, restartTask>>
       ELSE state' = "FAILED" /\ Schedule(pcs, policy)
    /\ Release
    /\ UNCHANGED <<process, exitTask, budgetVars, worldVars, gatewayVars, final>>

-----------------------------------------------------------------------------
(* Idle shutdown: idle_timeout_checker. *)

(* A task that has just been handed the lock runs in the next turn of the   *)
(* event loop: the idle timeout does not elapse first, unless the loop     *)
(* stalls.                                                                 *)
TimePasses ==
    /\ "idle" \in Environment
    /\ ~idle
    /\ owner # None /\ pc[owner] \notin HoldingLabels => "stall" \in Environment
    /\ idle' = TRUE
    /\ UNCHANGED <<state, refVars, budgetVars, os, servedBy, gatewayVars, lockVars, final, pc>>

(* What the sweep tests before it asks for the lock. *)
LooksIdle == state = "RUNNING" /\ IsRunning /\ Leases = {} /\ idle

AwaitSweep == LooksIdle /\ Wait(Checker, "cSleep", "qSweep")

EnterSweep ==
    /\ Entering(Checker, "cSleep", "qSweep")
    /\ pc[Checker] = "cSleep" => LooksIdle

(* Mutant: the leases are not looked at again under the lock. *)
StillIdleDespiteLeases == state = "RUNNING" /\ idle

(* What it tests again once it holds the lock. *)
StillIdle == state = "RUNNING" /\ Leases = {} /\ idle

SweepSkips ==
    /\ EnterSweep
    /\ ~StillIdle
    /\ Goto(Checker, "cSleep")
    /\ Release
    /\ UNCHANGED <<state, refVars, budgetVars, worldVars, gatewayVars, final>>

(* DRAINING is set in one critical section, the process is stopped in the  *)
(* next: nothing suspends in between unless the lock has waiters.          *)
SweepDrains ==
    /\ EnterSweep
    /\ StillIdle
    /\ state' = "DRAINING"
    /\ IF waiters = <<>>
       THEN EnterTerminate(Checker, "STOPPED")
       ELSE /\ owner' = Head(waiters)
            /\ waiters' = Append(Tail(waiters), Checker)
            /\ Goto(Checker, "qStop")
            /\ UNCHANGED <<refVars, budgetVars, worldVars, gatewayVars, final>>

SweepStops ==
    /\ pc[Checker] = "qStop"
    /\ owner = Checker
    /\ EnterTerminate(Checker, "STOPPED")
    /\ UNCHANGED state

-----------------------------------------------------------------------------
(* Retirement: drain_and_stop, by the reload task or at shutdown. *)

DrainBegin(t) == IF t = Reload THEN "watch" ELSE "stopped"

MayDrain(t) == registered /\ (t = Reload => "retire" \in Environment)

AwaitMark(t) == MayDrain(t) /\ Wait(t, DrainBegin(t), "qMark")

(* The runtime becomes non-activatable; bridge tasks are cancelled next.   *)
MarkDraining(t) ==
    /\ MayDrain(t)
    /\ Entering(t, DrainBegin(t), "qMark")
    /\ state' = "DRAINING"
    /\ Goto(t, "dWait")
    /\ Release
    /\ UNCHANGED <<refVars, budgetVars, worldVars, gatewayVars, final>>

(* wait_for_leases returns once no lease is left. *)
AwaitDrained(t) == Leases = {} /\ Wait(t, "dWait", "qDrain")

Drained(t) ==
    /\ Entering(t, "dWait", "qDrain")
    /\ pc[t] = "dWait" => Leases = {}
    /\ EnterTerminate(t, IF t = Reload THEN "DRAINING" ELSE "STOPPED")
    /\ UNCHANGED state

(* The new registry, without this runtime, replaces the old one. *)
Publish ==
    /\ pc[Reload] = "publish"
    /\ registered' = FALSE
    /\ Goto(Reload, "watch")
    /\ UNCHANGED <<state, refVars, budgetVars, worldVars, accepting, lockVars, final>>

(* Mutant: the policy is replaced without a reconciliation. *)
ReconfigureOnly ==
    /\ "reconfigure" \in Environment
    /\ pc[Reload] = "watch"
    /\ registered
    /\ \E budget \in Budgets : policy' = budget
    /\ UNCHANGED <<state, refVars, attempts, reserved, worldVars, gatewayVars,
                   lockVars, final, pc>>

(* A reload that changes restart.* only: the policy is replaced in place   *)
(* and reconcile_restart_policy runs before anything else can.             *)
Reconfigure ==
    /\ "reconfigure" \in Environment
    /\ pc[Reload] = "watch"
    /\ registered
    /\ \E budget \in Budgets :
        /\ policy' = budget
        /\ IF state = "FAILED"
           THEN Schedule(pc, budget)
           ELSE UNCHANGED <<pc, restartTask>>
    /\ UNCHANGED <<state, process, exitTask, attempts, reserved, worldVars,
                   gatewayVars, lockVars, final>>

-----------------------------------------------------------------------------
(* Shutdown: the finally block of lifespan. *)

(* No new work; the idle checker is cancelled and awaited. *)
BeginShutdown ==
    /\ "shutdown" \in Environment
    /\ pc[Main] = "up"
    /\ accepting' = FALSE
    /\ pc' = [pc EXCEPT ![Main] = "joined", ![Checker] = "done"]
    /\ Unlock(Checker)
    /\ UNCHANGED <<state, refVars, budgetVars, worldVars, registered, final>>

(* watcher.stop cancels the reload task, wherever it is suspended. *)
StopWatcher ==
    /\ pc[Main] = "joined"
    /\ pc' = [pc EXCEPT ![Main] = "stopped", ![Reload] = "done"]
    /\ Unlock(Reload)
    /\ UNCHANGED <<state, refVars, budgetVars, worldVars, gatewayVars, final>>

(* Mutant: cleanup leaves out a runtime that is draining already. *)
NothingToCleanWhileDraining ==
    /\ pc[Main] = "stopped"
    /\ ~registered \/ state = "DRAINING"
    /\ Goto(Main, "down")
    /\ UNCHANGED <<state, refVars, budgetVars, worldVars, gatewayVars, lockVars, final>>

(* cleanup finds nothing to drain: the runtime was retired before. *)
NothingToClean ==
    /\ pc[Main] = "stopped"
    /\ ~registered
    /\ Goto(Main, "down")
    /\ UNCHANGED <<state, refVars, budgetVars, worldVars, gatewayVars, lockVars, final>>

-----------------------------------------------------------------------------
Init ==
    /\ state = "STOPPED"
    /\ process = None /\ exitTask = None /\ restartTask = None
    /\ attempts = 0
    /\ policy \in Budgets
    /\ idle = FALSE
    /\ owner = None /\ waiters = <<>>
    /\ final = "STOPPED"
    /\ pc = [t \in Tasks |->
               CASE t \in Requests             -> "idle"
                 [] t \in Supervisors \cup Procs -> "done"
                 [] t = Checker                -> "cSleep"
                 [] t = Reload                 -> "watch"
                 [] t = Main                   -> "up"]
    /\ reserved = [s \in Supervisors |-> 0]
    /\ os = [p \in Procs |-> "dead"]
    /\ servedBy = [r \in Requests |-> None]
    /\ registered = TRUE
    /\ accepting = TRUE

Starting(t) == Spawn(t) \/ PortOpen(t) \/ Ready(t) \/ StartFails(t)

Terminating(t) == Signal(t) \/ Kill(t) \/ Reaped(t) \/ SignalError(t) \/ Terminated(t)

(* What a request goes on to do by itself until it holds a lease. *)
RequestStep(r) ==
    \/ Reject(r) \/ AcquireLease(r) \/ AwaitStart(r) \/ StartRefused(r)
    \/ StartFound(r) \/ StartOnDemand(r)
    \/ Starting(r) \/ Terminating(r)

SupervisorStep(s) ==
    \/ AwaitTop(s) \/ Reserve(s) \/ AwaitRestart(s) \/ Restart(s) \/ GiveUp(s)
    \/ Starting(s) \/ Terminating(s)

MonitorStep(p) == AwaitMonitor(p) \/ MonitorStale(p) \/ MonitorClears(p) \/ MonitorEnds(p)

CheckerStep == AwaitSweep \/ SweepSkips \/ SweepDrains \/ SweepStops \/ Terminating(Checker)

Draining(t) == AwaitMark(t) \/ MarkDraining(t) \/ AwaitDrained(t) \/ Drained(t)

ReloadStep == Draining(Reload) \/ Terminating(Reload) \/ Publish

MainStep == StopWatcher \/ NothingToClean \/ Draining(Main) \/ Terminating(Main)

(* The event loop runs until the lifespan has ended. *)
Running ==
    \/ \E r \in Requests : \/ RequestStep(r) \/ Capture(r) \/ Finish(r)
                          \/ CancelWaiting(r) \/ CancelStart(r) \/ CancelTeardown(r)
    \/ \E s \in Supervisors : SupervisorStep(s)
    \/ \E p \in Procs : MonitorStep(p) \/ Exit(p)
    \/ CheckerStep \/ TimePasses
    \/ ReloadStep \/ Reconfigure
    \/ MainStep \/ BeginShutdown

Next ==
    \/ pc[Main] # "down" /\ Running
    \/ pc[Main] = "down" /\ UNCHANGED vars

Spec == Init /\ [][Next]_vars

-----------------------------------------------------------------------------
(* Properties. *)

(* The awaits a task can be suspended at. *)
LabelsOf(t) ==
    CASE t \in Requests    -> RequestLabels \cup StartLabels \cup TeardownLabels
      [] t \in Supervisors -> SupervisorLabels \cup StartLabels \cup TeardownLabels
      [] t \in Procs       -> MonitorLabels
      [] t = Checker       -> CheckerLabels \cup TeardownLabels
      [] t = Reload        -> ReloadLabels \cup TeardownLabels
      [] t = Main          -> MainLabels \cup TeardownLabels

PcOK(f) == f \in [Tasks -> Labels] /\ \A t \in Tasks : f[t] \in LabelsOf(t)

TypeOK ==
    /\ state \in States
    /\ process \in Procs \cup {None}
    /\ exitTask \in Procs \cup {None}
    /\ restartTask \in Supervisors \cup {None}
    /\ attempts \in Nat
    /\ policy \in Budgets
    /\ idle \in BOOLEAN
    /\ owner \in Tasks \cup {None}
    /\ waiters \in Seq(Tasks)
    /\ final \in {"STOPPED", "DRAINING", "FAILED"}
    /\ PcOK(pc)
    /\ reserved \in [Supervisors -> Nat]
    /\ os \in [Procs -> {"alive", "dead"}]
    /\ servedBy \in [Requests -> Procs \cup {None}]
    /\ registered \in BOOLEAN
    /\ accepting \in BOOLEAN

(* A live process is always the one the runtime refers to, so there is at  *)
(* most one, a second start cannot run beside it, and whoever stops the    *)
(* runtime stops it: across failed, cancelled and concurrent starts.       *)
NoOrphan == \A p \in Procs : os[p] = "alive" => process = p

(* runtime.lock covers every await of a start, of a termination and of an  *)
(* exit report: whoever is suspended in one owns the lock, a start stays   *)
(* STARTING, nobody leaves STARTING behind, and outside a start a runtime  *)
(* that is down refers to no process.  NoOrphan rests on it.               *)
LockCoversLifecycle ==
    /\ \A t \in Tasks :
        /\ pc[t] \in HoldingLabels => owner = t
        /\ pc[t] \in StartLabels => state = "STARTING"
        /\ pc[t] \in {"spawn", "tLogs"} => ~IsRunning
        /\ pc[t] = "mLogs" => process = None
    /\ state = "STARTING" =>
        /\ owner \in Requests \cup Supervisors
        /\ pc[owner] \in StartLabels \cup TeardownLabels
    /\ state \in {"STOPPED", "FAILED"} => process = None

(* At most one restart loop acts for the runtime: a live one is the one    *)
(* that restart_task names, however failures, reloads and cancellations    *)
(* are interleaved with its start and its end.                             *)
OneSupervisor == \A s \in Supervisors : pc[s] # "done" => restartTask = s

(* A FAILED runtime whose policy leaves it an attempt is never abandoned:  *)
(* a restart loop is alive for it, although demand cannot start it, the    *)
(* loop may just be ending and the policy changes in place.                *)
FailureIsSupervised == state = "FAILED" /\ attempts < policy => Recovering

(* A process that died while RUNNING has a monitor that has yet to report  *)
(* it or is just doing so: the runtime cannot stay RUNNING without one.    *)
DeathIsNoticed ==
    state = "RUNNING" /\ ~IsRunning =>
        \E p \in Procs : \/ (process = p /\ pc[p] \in {"mWait", "qMonitor"})
                        \/ (process = None /\ owner = p /\ pc[p] = "mLogs")

(* No process is signalled while a request that was given its lease on it  *)
(* still holds the lease.                                                  *)
NoKillUnderLease ==
    \A t \in Tasks : pc[t] \in {"tTerm", "tKill"} =>
        \A r \in Leases : process = None \/ servedBy[r] # process

(* Once the new registry is published, the runtime it dropped is down for  *)
(* good: requests that still refer to it and coroutines that were about to *)
(* act on it cannot revive it.                                             *)
RetiredStaysDown ==
    ~registered =>
        /\ state = "DRAINING"
        /\ \A p \in Procs : os[p] = "dead"
        /\ \A s \in Supervisors : pc[s] = "done"

(* When the lifespan ends no process, lease or restart loop is left, even  *)
(* though it cancelled the idle checker and the reload in mid-termination. *)
NothingSurvivesShutdown ==
    pc[Main] = "down" =>
        /\ \A p \in Procs : os[p] = "dead"
        /\ \A s \in Supervisors : pc[s] = "done"
        /\ Leases = {}

(* The runtime implements what EndpointLifecycle promises, whatever its    *)
(* lock, restart loops, monitors, idle sweep and retirements interleave:   *)
(* one process at a time, leases on a live one only, none granted while it *)
(* drains, no rest before process and leases are gone, no way back once    *)
(* the registry has dropped it.                                            *)
Lifecycle ==
    INSTANCE EndpointLifecycle WITH
        phase <- state,
        live <- {p \in Procs : os[p] = "alive"},
        holders <- Leases,
        listed <- registered

ImplementsLifecycle == Lifecycle!Spec

(* A failed runtime does not get its budget back: only a supervisor moves  *)
(* it on to a new start, and no step lowers its count of attempts.         *)
BudgetIsKept ==
    [][state = "FAILED" =>
        /\ attempts' >= attempts
        /\ state' = "STARTING" => \E s \in Supervisors : pc[s] # "spawn" /\ pc'[s] = "spawn"]_vars

(* docs/configuration.md:187, "An unexpected process exit transitions the  *)
(* endpoint runtime to FAILED": a RUNNING runtime whose process is dead    *)
(* fails or is retired, it does not start over.                            *)
UnexpectedExitFails ==
    [][state = "RUNNING" /\ ~IsRunning => state' \in {"RUNNING", "FAILED", "DRAINING"}]_vars

-----------------------------------------------------------------------------
(* Fairness.  The event loop runs every task that is ready, an await that  *)
(* times out does so, and SIGKILL ends a process.                          *)
Up == pc[Main] # "down"

LoopFairness ==
    /\ \A r \in Requests : WF_vars(Up /\ RequestStep(r))
    /\ \A s \in Supervisors : WF_vars(Up /\ SupervisorStep(s))
    /\ \A p \in Procs :
        /\ WF_vars(Up /\ MonitorStep(p))
        /\ WF_vars(Up /\ process = p /\ owner # None /\ pc[owner] = "tKill" /\ Exit(p))
    /\ WF_vars(Up /\ (SweepSkips \/ SweepStops \/ Terminating(Checker)))
    /\ WF_vars(Up /\ pc[Reload] # "watch" /\ ReloadStep)
    /\ WF_vars(Up /\ MainStep)

(* Responses may stay open for ever: a stream ends when its peers end it.  *)
OpenStreamSpec == Spec /\ LoopFairness

(* Every response ends, as it does when upstream_timeout bounds it. *)
FairSpec == OpenStreamSpec /\ \A r \in Requests : WF_vars(Up /\ Finish(r))

(* Every request is answered, or gets its lease, unless the gateway goes   *)
(* down first: starts, teardowns and retirements in front of it all end.   *)
RequestsAreAnswered ==
    \A r \in Requests :
        pc[r] \in {"captured", "qStart"} ~> pc[r] \in {"idle", "leased"} \/ pc[Main] = "down"

(* A retirement that has begun ends with the new registry published,       *)
(* unless shutdown cancels it, whatever the runtime was doing.             *)
RetirementCompletes ==
    pc[Reload] \in {"qMark", "dWait"} ~> ~registered \/ ~accepting

(* Under a policy that leaves it an attempt, a failed runtime is started   *)
(* again without any request's help, the last attempt included.            *)
FailureIsRetried == state = "FAILED" /\ attempts < policy ~> state # "FAILED"

(* Shutdown terminates once begun. *)
ShutdownCompletes == ~accepting ~> pc[Main] = "down"
=============================================================================
