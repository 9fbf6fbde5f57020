------------------------- MODULE EndpointSafetyProofs -------------------------
(***************************************************************************)
(* What EndpointRuntime promises, for all values of its constants.  It     *)
(* implements EndpointLifecycle, by ProcessInv, an invariant about who     *)
(* stops the runtime and why, and by each step of a task as a step of the  *)
(* lifecycle.  And its safety properties: deaths are noticed, leases       *)
(* protect their process, failures are supervised, budgets are kept and    *)
(* shutdown leaves nothing behind.                                         *)
(***************************************************************************)
EXTENDS EndpointRuntimeProofs

USE DEF lockVars, refVars, budgetVars, worldVars, gatewayVars

(* No teardown is cut short, and the event loop does not stall for as long *)
(* as an idle timeout.                                                     *)
Orderly == TeardownsEnd /\ "stall" \notin Environment

(***************************************************************************)
(* The invariant                                                           *)
(***************************************************************************)

(* t is retiring the runtime, from its mark to its publication. *)
Retires(t) == pc[t] \in {"dWait", "qDrain", "publish"} \cup TeardownLabels

Retiring == Retires(Reload) \/ Retires(Main) \/ ~registered

(* A retirement that has seen the last lease returned. *)
Emptied ==
    \/ ~registered
    \/ \E t \in {Reload, Main} : pc[t] \in {"qDrain", "publish"} \cup TeardownLabels

(* The lock has waiters only while it is taken; and one that was handed    *)
(* over is not used to stop a running runtime, which has just been active. *)
QueueInv ==
    /\ owner = None => waiters = <<>>
    /\ state = "RUNNING" /\ idle => owner = None \/ pc[owner] \in HoldingLabels

(* Each teardown leaves the state that its caller asked for, and nobody    *)
(* takes a runtime out of DRAINING that is being retired.                  *)
StopInv ==
    /\ \A t \in Requests \cup Supervisors :
         pc[t] \in TeardownLabels => state = "STARTING" /\ final \in {"STOPPED", "FAILED"}
    /\ pc[Checker] # "qStop"
    /\ pc[Checker] \in TeardownLabels =>
         state = "DRAINING" /\ final = "STOPPED" /\ Leases = {} /\ ~Retiring
    /\ Retiring => state = "DRAINING"
    /\ Emptied => Leases = {}
    /\ pc[Reload] \in TeardownLabels => final = "DRAINING"
    /\ pc[Main] \in TeardownLabels => final = "STOPPED"
    /\ pc[Reload] = "publish" \/ ~registered => \A p \in Procs : os[p] = "dead"
    /\ pc[Main] # "up" => pc[Checker] = "done"
    /\ pc[Main] \notin {"up", "joined"} => pc[Reload] = "done"
    /\ pc[Main] \in {"qMark", "dWait", "qDrain"} \cup TeardownLabels => registered

RefinementInv == ProcessInv /\ LockInv /\ QueueInv /\ StopInv

(***************************************************************************)
(* The queue of the lock                                                   *)
(***************************************************************************)

(* A release by a task that was handed the lock, or found it free, or by   *)
(* any task after which the runtime is not both running and idle.          *)
LEMMA ReleaseQueue ==
    ASSUME TypeOK, QueueInv, Release,
           \/ state' # "RUNNING" \/ ~idle'
           \/ /\ state' = state /\ idle' = idle
              /\ owner # None => pc[owner] \notin HoldingLabels
    PROVE  QueueInv'
<1>1. owner' = None => waiters' = <<>>
  BY HeadTailProperties, TasksAssumption DEF TypeOK, Release
<1>2. CASE state' = "RUNNING" /\ idle'
  <2>1. owner = None
    BY <1>2 DEF QueueInv
  <2>2. owner' = None
    BY <2>1 DEF QueueInv, Release
  <2> QED
    BY <1>1, <2>2 DEF QueueInv
<1> QED
  BY <1>1, <1>2 DEF QueueInv

LEMMA LeaveEmpty == ASSUME NEW t PROVE Leave(<<>>, t) = <<>>
BY DEF Leave

(* t is inside after the step. *)
LEMMA InsideQueue ==
    ASSUME NEW t \in Tasks, owner' = t, pc'[t] \in HoldingLabels
    PROVE  QueueInv'
BY TasksAssumption DEF QueueInv

(* The lock is not touched. *)
LEMMA LockQueue ==
    ASSUME QueueInv, UNCHANGED lockVars,
           state' = "RUNNING" /\ idle' => state = "RUNNING" /\ idle,
           owner # None /\ pc[owner] \in HoldingLabels => pc'[owner] \in HoldingLabels
    PROVE  QueueInv'
BY DEF QueueInv

LEMMA WaitQueue ==
    ASSUME TypeOK, QueueInv, NEW t \in Tasks, NEW want, NEW queued, Wait(t, want, queued),
           want \notin HoldingLabels
    PROVE  QueueInv'
BY DEF Wait, Goto, QueueInv, TypeOK, PcOK

(* A task that is cancelled outside the lock. *)
LEMMA UnlockQueue ==
    ASSUME TypeOK, QueueInv, NEW t \in Tasks, Unlock(t),
           UNCHANGED <<state, idle>>,
           \A u \in Tasks \ {t} : pc[u] \in HoldingLabels => pc'[u] \in HoldingLabels,
           owner = t => pc[t] \notin HoldingLabels \/ state # "RUNNING"
    PROVE  QueueInv'
<1>1. CASE owner = t
  BY <1>1, ReleaseQueue, TasksAssumption DEF Unlock
<1>2. CASE owner # t
  BY <1>2, LeaveEmpty DEF Unlock, QueueInv, TypeOK
<1> QED
  BY <1>1, <1>2

(* t enters the lock, and leaves it at once or stays inside. *)
LEMMA EnteringQueue ==
    ASSUME TypeOK, QueueInv, NEW t \in Tasks, NEW want, NEW queued,
           Entering(t, want, queued),
           want \notin HoldingLabels, queued \notin HoldingLabels,
           \/ Release /\ (state' # "RUNNING" \/ ~idle' \/ (state' = state /\ idle' = idle))
           \/ owner' = t /\ pc'[t] \in HoldingLabels
    PROVE  QueueInv'
BY ReleaseQueue, InsideQueue DEF Entering

LEMMA StartingQueue ==
    ASSUME TypeOK, LockInv, QueueInv, NEW t \in Requests \cup Supervisors, Starting(t)
    PROVE  QueueInv'
<1> USE DEF TypeOK, PcOK
<1>1. t \in Tasks /\ owner = t /\ t \notin Procs
  BY TasksAssumption DEF Starting, Spawn, PortOpen, Ready, StartFails, LockInv,
     HoldingLabels, StartLabels, Tasks
<1>2. CASE Spawn(t)
  <2>1. pc'[t] = "port" /\ owner' = owner
    BY <1>1, <1>2, TasksAssumption DEF Spawn, Tasks
  <2> QED
    BY <1>1, <2>1, InsideQueue DEF HoldingLabels, StartLabels
<1>3. CASE PortOpen(t)
  BY <1>1, <1>3, InsideQueue DEF PortOpen, Goto, HoldingLabels, StartLabels
<1>4. CASE Ready(t)
  BY <1>4, ReleaseQueue DEF Ready
<1>5. CASE StartFails(t)
  BY <1>1, <1>5, InsideQueue DEF StartFails, EnterTerminate, HoldingLabels, TeardownLabels
<1> QED
  BY <1>2, <1>3, <1>4, <1>5 DEF Starting

LEMMA TerminatingQueue ==
    ASSUME TypeOK, LockInv, QueueInv, NEW t \in Tasks, Terminating(t)
    PROVE  QueueInv'
<1> USE DEF TypeOK, PcOK
<1>1. owner = t
  BY DEF Terminating, Signal, Kill, Reaped, SignalError, Terminated, LockInv,
     HoldingLabels, TeardownLabels
<1>2. CASE Signal(t) \/ Kill(t) \/ Reaped(t) \/ SignalError(t)
  BY <1>1, <1>2, InsideQueue DEF Signal, Kill, Reaped, SignalError, Goto, HoldingLabels,
     TeardownLabels
<1>3. CASE Terminated(t)
  BY <1>3, ReleaseQueue DEF Terminated
<1> QED
  BY <1>2, <1>3 DEF Terminating

LEMMA RequestQueue ==
    ASSUME TypeOK, LockInv, QueueInv, NEW r \in Requests,
           \/ RequestStep(r) \/ Capture(r) \/ Finish(r)
           \/ CancelWaiting(r) \/ CancelStart(r) \/ CancelTeardown(r)
    PROVE  QueueInv'
<1> USE DEF TypeOK, PcOK
<1>1. r \in Tasks
  BY DEF Tasks
<1>2. \A label \in {"idle", "captured", "qStart", "leased"} : label \notin HoldingLabels
  BY DEF HoldingLabels, StartLabels, TeardownLabels
<1>3. CASE Capture(r) \/ Reject(r) \/ AcquireLease(r) \/ Finish(r)
  BY <1>1, <1>2, <1>3, LockQueue DEF Capture, Reject, AcquireLease, Finish, GrantLease, Goto
<1>4. CASE AwaitStart(r)
  BY <1>1, <1>2, <1>4, WaitQueue DEF AwaitStart
<1>5. CASE StartRefused(r) \/ StartFound(r)
  BY <1>1, <1>2, <1>5, EnteringQueue DEF StartRefused, StartFound, EnterStart
<1>6. CASE StartOnDemand(r)
  BY <1>1, <1>6, InsideQueue DEF StartOnDemand, BeginStart, HoldingLabels, StartLabels
<1>7. CASE CancelWaiting(r)
  BY <1>1, <1>2, <1>7, UnlockQueue DEF CancelWaiting, Goto
<1>8. CASE CancelStart(r)
  BY <1>1, <1>8, InsideQueue DEF CancelStart, EnterTerminate, HoldingLabels, TeardownLabels
<1>9. CASE CancelTeardown(r)
  <2>1. Release /\ state' # "RUNNING"
    BY <1>9 DEF CancelTeardown, LockInv
  <2> QED
    BY <2>1, ReleaseQueue
<1> QED
  BY <1>1, <1>3, <1>4, <1>5, <1>6, <1>7, <1>8, <1>9, StartingQueue, TerminatingQueue
     DEF RequestStep

LEMMA SupervisorQueue ==
    ASSUME TypeOK, LockInv, QueueInv, NEW s \in Supervisors, SupervisorStep(s)
    PROVE  QueueInv'
<1> USE DEF TypeOK, PcOK
<1>1. s \in Tasks
  BY DEF Tasks
<1>2. \A label \in {"top", "qTop", "sleep", "qAgain"} : label \notin HoldingLabels
  BY DEF HoldingLabels, StartLabels, TeardownLabels
<1>3. CASE AwaitTop(s) \/ AwaitRestart(s)
  BY <1>1, <1>2, <1>3, WaitQueue DEF AwaitTop, AwaitRestart
<1>4. CASE Reserve(s) \/ GiveUp(s)
  BY <1>1, <1>2, <1>4, EnteringQueue DEF Reserve, GiveUp
<1>5. CASE Restart(s)
  BY <1>1, <1>5, InsideQueue DEF Restart, BeginStart, HoldingLabels, StartLabels
<1> QED
  BY <1>1, <1>3, <1>4, <1>5, StartingQueue, TerminatingQueue DEF SupervisorStep

LEMMA MonitorQueue ==
    ASSUME TypeOK, LockInv, QueueInv, NEW p \in Procs, MonitorStep(p) \/ Exit(p)
    PROVE  QueueInv'
<1> USE DEF TypeOK, PcOK
<1>1. p \in Tasks
  BY DEF Tasks
<1>2. \A label \in {"mWait", "qMonitor"} : label \notin HoldingLabels
  BY DEF HoldingLabels, StartLabels, TeardownLabels
<1>3. CASE AwaitMonitor(p)
  BY <1>1, <1>2, <1>3, WaitQueue DEF AwaitMonitor
<1>4. CASE MonitorStale(p)
  BY <1>1, <1>2, <1>4, EnteringQueue DEF MonitorStale, EnterMonitor
<1>5. CASE MonitorClears(p)
  BY <1>1, <1>5, InsideQueue DEF MonitorClears, Goto, Hold, HoldingLabels
<1>6. CASE MonitorEnds(p)
  BY <1>6, ReleaseQueue DEF MonitorEnds
<1>7. CASE Exit(p)
  BY <1>7, LockQueue DEF Exit
<1> QED
  BY <1>3, <1>4, <1>5, <1>6, <1>7 DEF MonitorStep

LEMMA CheckerQueue ==
    ASSUME TypeOK, LockInv, "stall" \notin Environment, QueueInv, CheckerStep \/ TimePasses
    PROVE  QueueInv'
<1> USE DEF TypeOK, PcOK
<1>1. Checker \in Tasks
  BY DEF Tasks
<1>2. \A label \in {"cSleep", "qSweep"} : label \notin HoldingLabels
  BY DEF HoldingLabels, StartLabels, TeardownLabels
<1>3. CASE AwaitSweep
  BY <1>1, <1>2, <1>3, WaitQueue DEF AwaitSweep
<1>4. CASE SweepSkips
  BY <1>1, <1>2, <1>4, EnteringQueue DEF SweepSkips, EnterSweep
<1>5. CASE SweepDrains
  <2>1. waiters = <<>>
    BY <1>1, <1>2, <1>5, TasksAssumption
       DEF SweepDrains, StillIdle, EnterSweep, Entering, QueueInv
  <2> QED
    BY <1>1, <1>5, <2>1, InsideQueue DEF SweepDrains, EnterTerminate, HoldingLabels,
       TeardownLabels
<1>6. CASE SweepStops
  BY <1>1, <1>6, InsideQueue DEF SweepStops, EnterTerminate, HoldingLabels, TeardownLabels
<1>7. CASE TimePasses
  BY <1>7 DEF TimePasses, QueueInv
<1> QED
  BY <1>1, <1>3, <1>4, <1>5, <1>6, <1>7, TerminatingQueue DEF CheckerStep

LEMMA GatewayQueue ==
    ASSUME TypeOK, LockInv, QueueInv,
           \A t \in {Checker, Reload} : pc[t] \in TeardownLabels => state # "RUNNING",
           ReloadStep \/ Reconfigure \/ MainStep \/ BeginShutdown
    PROVE  QueueInv'
<1> USE DEF TypeOK, PcOK
<1>1. {Reload, Main, Checker} \subseteq Tasks /\ Reload # Main /\ Checker # Main
  BY TasksAssumption DEF Tasks
<1>2. \A label \in {"up", "joined", "watch", "stopped", "qMark", "dWait", "qDrain", "publish"} :
        label \notin HoldingLabels
  BY DEF HoldingLabels, StartLabels, TeardownLabels
<1>3. ASSUME NEW t \in {Reload, Main}, Draining(t) PROVE QueueInv'
  <2>1. DrainBegin(t) \in {"watch", "stopped"}
    BY DEF DrainBegin
  <2>2. CASE AwaitMark(t) \/ AwaitDrained(t)
    BY <1>1, <1>2, <2>1, <2>2, WaitQueue DEF AwaitMark, AwaitDrained
  <2>3. CASE MarkDraining(t)
    BY <2>3, ReleaseQueue DEF MarkDraining
  <2>4. CASE Drained(t)
    BY <1>1, <2>4, InsideQueue DEF Drained, EnterTerminate, HoldingLabels, TeardownLabels
  <2> QED
    BY <1>3, <2>2, <2>3, <2>4 DEF Draining
<1>4. CASE Publish \/ NothingToClean
  BY <1>1, <1>2, <1>4, LockQueue DEF Publish, NothingToClean, Goto
<1>5. CASE Reconfigure
  <2>1. \A u \in Tasks : pc[u] \in HoldingLabels => pc'[u] = pc[u]
    BY <1>5 DEF Reconfigure, Schedule, HoldingLabels, StartLabels, TeardownLabels
  <2>2. UNCHANGED <<state, idle, owner, waiters>>
    BY <1>5 DEF Reconfigure
  <2> QED
    BY <2>1, <2>2, LockQueue
<1>6. CASE StopWatcher
  <2>1. pc[Reload] \notin HoldingLabels \/ state # "RUNNING"
    BY <1>1, LabelKinds DEF HoldingLabels, StartLabels, ReloadLabels, DrainLabels
  <2> QED
    BY <1>1, <1>2, <1>6, <2>1, UnlockQueue DEF StopWatcher
<1>7. CASE BeginShutdown
  <2>1. pc[Checker] \notin HoldingLabels \/ state # "RUNNING"
    BY <1>1, LabelKinds DEF HoldingLabels, StartLabels, CheckerLabels
  <2> QED
    BY <1>1, <1>2, <1>7, <2>1, UnlockQueue DEF BeginShutdown
<1> QED
  BY <1>1, <1>3, <1>4, <1>5, <1>6, <1>7, TerminatingQueue DEF ReloadStep, MainStep

(***************************************************************************)
(* Who stops the runtime                                                   *)
(***************************************************************************)

(* The lifecycle of a draining runtime only winds down in this step. *)
WindsDown ==
    /\ state' = "DRAINING"
    /\ Leases' \subseteq Leases
    /\ \A p \in Procs : os'[p] = "alive" => os[p] = "alive"

(* A step that begins no teardown, disturbs none, and moves no task on     *)
(* that retires the runtime.                                               *)
LEMMA StopFrame ==
    ASSUME TypeOK, TypeOK', StopInv, registered' = registered,
           state = "DRAINING" => WindsDown,
           \A t \in Tasks : pc'[t] \in TeardownLabels =>
               pc[t] \in TeardownLabels /\ state' = state /\ final' = final,
           \A t \in {Checker, Reload, Main} :
               \/ pc'[t] = pc[t]
               \/ t = Checker /\ pc'[t] \in {"cSleep", "qSweep"} /\ pc[t] # "done"
               \/ pc[t] \in TeardownLabels /\ pc'[t] \in TeardownLabels
               \/ t = Reload /\ pc[t] = "watch" /\ pc'[t] = "qMark"
    PROVE  StopInv'
<1> USE DEF TypeOK, PcOK
<1>1. /\ {Checker, Reload, Main} \subseteq Tasks /\ Requests \cup Supervisors \subseteq Tasks
      /\ Checker # Reload /\ Checker # Main /\ Reload # Main
  BY TasksAssumption DEF Tasks
<1>2. \A t \in {Reload, Main} : Retires(t)' => Retires(t)
  BY <1>1 DEF Retires, TeardownLabels
<1>3. Retiring' => Retiring
  BY <1>2 DEF Retiring
<1>4. Emptied' => Emptied /\ Retiring
  BY <1>1 DEF Emptied, Retiring, Retires, TeardownLabels
<1>5. Retiring' => state' = "DRAINING"
  BY <1>3 DEF StopInv, WindsDown
<1>6. Emptied' => Leases' = {}
  BY <1>3, <1>4 DEF StopInv, WindsDown
<1>7. \A t \in Requests \cup Supervisors :
        pc'[t] \in TeardownLabels => state' = "STARTING" /\ final' \in {"STOPPED", "FAILED"}
  BY <1>1 DEF StopInv
<1>8. pc'[Checker] # "qStop"
  BY <1>1 DEF StopInv, TeardownLabels
<1>9. pc'[Checker] \in TeardownLabels =>
        state' = "DRAINING" /\ final' = "STOPPED" /\ Leases' = {} /\ ~Retiring'
  BY <1>1, <1>3 DEF StopInv, WindsDown
<1>10. /\ pc'[Reload] \in TeardownLabels => final' = "DRAINING"
       /\ pc'[Main] \in TeardownLabels => final' = "STOPPED"
  BY <1>1 DEF StopInv
<1>11. pc'[Reload] = "publish" \/ ~registered' => \A p \in Procs : os'[p] = "dead"
  <2>1. pc'[Reload] = "publish" \/ ~registered' => pc[Reload] = "publish" \/ ~registered
    BY <1>1 DEF TeardownLabels
  <2>2. pc[Reload] = "publish" \/ ~registered => state = "DRAINING"
    BY DEF StopInv, Retiring, Retires
  <2>3. \A p \in Procs : os'[p] \in {"alive", "dead"}
    OBVIOUS
  <2> QED
    BY <2>1, <2>2, <2>3 DEF StopInv, WindsDown
<1>12. /\ pc'[Main] # "up" => pc'[Checker] = "done"
       /\ pc'[Main] \notin {"up", "joined"} => pc'[Reload] = "done"
       /\ pc'[Main] \in {"qMark", "dWait", "qDrain"} \cup TeardownLabels => registered'
  BY <1>1 DEF StopInv, TeardownLabels
<1> QED
  BY <1>5, <1>6, <1>7, <1>8, <1>9, <1>10, <1>11, <1>12 DEF StopInv

(* What entering a termination does to the tasks. *)
LEMMA EnterTerminateTasks ==
    ASSUME TypeOK, NEW t \in Tasks \ Procs, NEW target, EnterTerminate(t, target)
    PROVE  /\ pc'[t] = "tTasks" /\ final' = target
           /\ \A u \in Tasks \ {t} : pc'[u] \in {pc[u], "done"}
           /\ \A u \in (Requests \cup {Checker, Reload, Main}) \ {t} : pc'[u] = pc[u]
           /\ Leases' = Leases \ {t}
           /\ UNCHANGED <<os, registered>>
<1> USE DEF TypeOK, PcOK
<1>1. \A u \in Requests \cup {Checker, Reload, Main} :
        u \in Tasks /\ u # restartTask /\ u # exitTask
  BY TasksAssumption DEF Tasks
<1>2. /\ pc' = [x \in Tasks |-> IF x = t THEN "tTasks"
                                ELSE IF x \in {restartTask, exitTask} THEN "done" ELSE pc[x]]
      /\ final' = target /\ UNCHANGED <<os, registered>>
  BY DEF EnterTerminate
<1>3. \A u \in (Requests \cup {Checker, Reload, Main}) \ {t} : pc'[u] = pc[u]
  BY <1>1, <1>2
<1>4. pc'[t] = "tTasks" /\ \A u \in Tasks \ {t} : pc'[u] \in {pc[u], "done"}
  BY <1>2
<1>5. Leases' = Leases \ {t}
  BY <1>3, <1>4 DEF Leases
<1> QED
  BY <1>2, <1>3, <1>4, <1>5

(* A failed or cancelled start. *)
LEMMA StartTeardownStop ==
    ASSUME TypeOK, StopInv, NEW t \in Requests \cup Supervisors,
           NEW target \in {"STOPPED", "FAILED"}, EnterTerminate(t, target),
           \A u \in Tasks \ {t} : pc[u] \notin HoldingLabels,
           state = "STARTING", state' = state
    PROVE  StopInv'
<1> USE DEF TypeOK, PcOK
<1>1. /\ t \in Tasks \ Procs /\ t \notin {Checker, Reload, Main}
      /\ {Checker, Reload, Main} \cup Requests \cup Supervisors \subseteq Tasks
  BY TasksAssumption DEF Tasks
<1>2. /\ final' = target
      /\ \A u \in Tasks \ {t} : pc'[u] \in {pc[u], "done"}
      /\ \A u \in {Checker, Reload, Main} : pc'[u] = pc[u]
      /\ UNCHANGED <<os, registered>>
  BY <1>1, EnterTerminateTasks
<1>3. ~Retiring
  BY DEF StopInv
<1>4. \A u \in {Checker, Reload, Main} : pc[u] \notin TeardownLabels
  BY <1>1 DEF HoldingLabels
<1>5. ~Retiring' /\ ~Emptied'
  BY <1>2, <1>3, <1>4 DEF Retiring, Retires, Emptied
<1> QED
  BY <1>1, <1>2, <1>3, <1>4, <1>5 DEF StopInv, Retiring, Retires

(* Its end: the state is what the start left behind. *)
LEMMA StartTornDownStop ==
    ASSUME TypeOK, TypeOK', StopInv, NEW t \in Requests \cup Supervisors, Terminated(t),
           \A u \in Tasks \ {t} : pc[u] \notin HoldingLabels
    PROVE  StopInv'
<1> USE DEF TypeOK, PcOK
<1>1. /\ t \in Tasks /\ t \notin {Checker, Reload, Main}
      /\ {Checker, Reload, Main} \cup Requests \cup Supervisors \subseteq Tasks
      /\ {Checker, Reload, Main} \cap Supervisors = {}
  BY TasksAssumption DEF Tasks
<1>2. state = "STARTING"
  BY DEF StopInv, Terminated, TeardownLabels
<1>3. AfterTerminate(t) \in {"idle", "top"}
  BY TasksAssumption DEF AfterTerminate
<1>4. \A u \in Tasks : pc'[u] \in {pc[u], "top", "idle"} /\ (u = t => pc'[u] \in {"top", "idle"})
  BY <1>1, <1>3 DEF Terminated, Schedule
<1>5. \A u \in {Checker, Reload, Main} : pc'[u] = pc[u]
  BY <1>1 DEF Terminated, Schedule
<1>6. \A u \in Tasks : pc'[u] \notin TeardownLabels
  BY <1>4 DEF HoldingLabels, TeardownLabels
<1>7. registered' = registered
  BY DEF Terminated
<1> QED
  BY <1>1, <1>2, <1>5, <1>6, <1>7, StopFrame

(* A start, up to its end or its failure. *)
LEMMA StartingStop ==
    ASSUME ProcessInv, TypeOK', StopInv, NEW t \in Requests \cup Supervisors, Starting(t)
    PROVE  StopInv'
<1> USE DEF ProcessInv, TypeOK, PcOK
<1>1. /\ t \in Tasks /\ t \notin Procs /\ t \notin {Checker, Reload, Main}
      /\ {Checker, Reload, Main} \subseteq Tasks \ Procs
  BY TasksAssumption DEF Tasks
<1>2. pc[t] \in StartLabels
  BY DEF Starting, Spawn, PortOpen, Ready, StartFails, StartLabels
<1>3. state = "STARTING" /\ \A u \in Tasks \ {t} : pc[u] \notin HoldingLabels
  BY <1>1, <1>2, InsideAlone DEF LockCoversLifecycle, HoldingLabels
<1>4. CASE Spawn(t) \/ PortOpen(t) \/ Ready(t)
  <2>1. \A u \in Tasks : pc'[u] # pc[u] => pc'[u] \in {"port", "probe", "mWait", "leased", "done"}
    BY <1>4 DEF Spawn, PortOpen, Ready, GrantLease, Goto
  <2>2. \A u \in {Checker, Reload, Main} : pc'[u] = pc[u]
    BY <1>1, <1>4 DEF Spawn, PortOpen, Ready, GrantLease, Goto
  <2>3. \A u \in Tasks : pc'[u] \notin TeardownLabels
    BY <1>2, <1>3, <2>1 DEF StartLabels, TeardownLabels, HoldingLabels
  <2>4. registered' = registered
    BY <1>4 DEF Spawn, PortOpen, Ready
  <2> QED
    BY <1>3, <2>2, <2>3, <2>4, StopFrame
<1>5. CASE StartFails(t)
  BY <1>3, <1>5, StartTeardownStop DEF StartFails
<1> QED
  BY <1>4, <1>5 DEF Starting

(* Inside a teardown. *)
LEMMA InsideStop ==
    ASSUME TypeOK, TypeOK', StopInv, NEW t \in Tasks \ Procs,
           Signal(t) \/ Kill(t) \/ Reaped(t) \/ SignalError(t)
    PROVE  StopInv'
<1> USE DEF TypeOK, PcOK
<1>1. /\ pc[t] \in TeardownLabels /\ pc'[t] \in TeardownLabels
      /\ \A u \in Tasks : u # t => pc'[u] = pc[u]
      /\ UNCHANGED <<state, final, registered, os>>
  BY DEF Signal, Kill, Reaped, SignalError, Goto, TeardownLabels
<1>2. Leases' = Leases
  BY <1>1, TasksAssumption DEF Leases, Tasks, TeardownLabels
<1>3. {Checker, Reload, Main} \subseteq Tasks
  BY DEF Tasks
<1> QED
  BY <1>1, <1>2, <1>3, StopFrame DEF WindsDown

(* A step of a request, a supervisor or a monitor outside the teardowns.   *)
LEMMA OutsideStop ==
    ASSUME TypeOK, TypeOK', StopInv, registered' = registered,
           state = "DRAINING" => WindsDown,
           UNCHANGED <<state, final>> \/ \A u \in Tasks : pc[u] \notin TeardownLabels,
           \A u \in Tasks : pc'[u] \in TeardownLabels => pc'[u] = pc[u],
           \A u \in {Checker, Reload, Main} : pc'[u] = pc[u]
    PROVE  StopInv'
BY StopFrame

LEMMA RequestStop ==
    ASSUME ProcessInv, TypeOK', TeardownsEnd, StopInv, NEW r \in Requests,
           \/ RequestStep(r) \/ Capture(r) \/ Finish(r)
           \/ CancelWaiting(r) \/ CancelStart(r) \/ CancelTeardown(r)
    PROVE  StopInv'
<1> USE DEF ProcessInv, TypeOK, PcOK
<1>1. /\ r \in Tasks \ Procs /\ r \notin {Checker, Reload, Main}
      /\ {Checker, Reload, Main} \subseteq Tasks
  BY TasksAssumption DEF Tasks
<1>2. CASE \/ Capture(r) \/ Reject(r) \/ AcquireLease(r) \/ Finish(r)
           \/ AwaitStart(r) \/ StartRefused(r) \/ StartFound(r) \/ CancelWaiting(r)
  <2>1. /\ UNCHANGED <<state, final, registered, os>>
        /\ \A u \in Tasks : u # r => pc'[u] = pc[u]
        /\ pc'[r] \in {"captured", "idle", "leased", "qStart"}
        /\ pc'[r] = "leased" => state = "RUNNING"
    BY <1>1, <1>2 DEF Capture, Reject, AcquireLease, Finish, AwaitStart, StartRefused, StartFound,
       CancelWaiting, Wait, GrantLease, Goto
  <2>2. state = "DRAINING" => Leases' \subseteq Leases
    BY <1>1, <2>1 DEF Leases, Tasks
  <2>3. \A u \in {Checker, Reload, Main} : pc'[u] = pc[u]
    BY <1>1, <2>1
  <2> QED
    BY <2>1, <2>2, <2>3, OutsideStop DEF WindsDown, TeardownLabels
<1>3. CASE StartOnDemand(r)
  <2>1. owner \in {None, r} /\ pc[r] \notin HoldingLabels
    BY <1>1, <1>3, EnteringOutside DEF StartOnDemand, EnterStart, HoldingLabels, StartLabels,
       TeardownLabels
  <2>2. \A u \in Tasks : pc[u] \notin TeardownLabels
    BY <1>1, <2>1, EnterAlone DEF HoldingLabels
  <2>3. /\ \A u \in Tasks : pc'[u] \in {pc[u], "spawn", "done"}
        /\ \A u \in {Checker, Reload, Main} : pc'[u] = pc[u]
    BY <1>1, <1>3, TasksAssumption DEF StartOnDemand, BeginStart
  <2>4. state # "DRAINING" /\ registered' = registered
    BY <1>3 DEF StartOnDemand, BeginStart
  <2> QED
    BY <2>2, <2>3, <2>4, OutsideStop DEF TeardownLabels
<1>4. CASE CancelStart(r)
  <2>1. state = "STARTING" /\ \A u \in Tasks \ {r} : pc[u] \notin HoldingLabels
    BY <1>1, <1>4, InsideAlone DEF CancelStart, LockCoversLifecycle, HoldingLabels
  <2> QED
    BY <1>4, <2>1, StartTeardownStop DEF CancelStart
<1>5. CASE CancelTeardown(r)
  BY <1>5 DEF CancelTeardown, TeardownsEnd
<1>6. CASE Terminated(r)
  BY <1>1, <1>6, InsideAlone, StartTornDownStop DEF Terminated, HoldingLabels, TeardownLabels
<1> QED
  BY <1>1, <1>2, <1>3, <1>4, <1>5, <1>6, StartingStop, InsideStop DEF RequestStep, Terminating

LEMMA SupervisorStop ==
    ASSUME ProcessInv, TypeOK', StopInv, NEW s \in Supervisors, SupervisorStep(s)
    PROVE  StopInv'
<1> USE DEF ProcessInv, TypeOK, PcOK
<1>1. /\ s \in Tasks \ Procs /\ s \notin {Checker, Reload, Main} /\ s \notin Requests
      /\ {Checker, Reload, Main} \cup Requests \subseteq Tasks
  BY TasksAssumption DEF Tasks
<1>2. CASE AwaitTop(s) \/ Reserve(s) \/ AwaitRestart(s) \/ GiveUp(s)
  <2>1. /\ UNCHANGED <<state, final, registered, os>>
        /\ \A u \in Tasks : u # s => pc'[u] = pc[u]
        /\ pc'[s] \in {"qTop", "sleep", "qAgain", "done"}
    BY <1>1, <1>2 DEF AwaitTop, Reserve, AwaitRestart, GiveUp, Wait, Goto
  <2>2. Leases' = Leases
    BY <1>1, <2>1 DEF Leases
  <2>3. \A u \in {Checker, Reload, Main} : pc'[u] = pc[u]
    BY <1>1, <2>1
  <2> QED
    BY <2>1, <2>2, <2>3, OutsideStop DEF WindsDown, TeardownLabels
<1>3. CASE Restart(s)
  <2>1. owner \in {None, s} /\ pc[s] \notin HoldingLabels
    BY <1>1, <1>3, EnteringOutside DEF Restart, HoldingLabels, StartLabels, TeardownLabels
  <2>2. \A u \in Tasks : pc[u] \notin TeardownLabels
    BY <1>1, <2>1, EnterAlone DEF HoldingLabels
  <2>3. /\ \A u \in Tasks : pc'[u] \in {pc[u], "spawn", "done"}
        /\ \A u \in {Checker, Reload, Main} : pc'[u] = pc[u]
    BY <1>1, <1>3, TasksAssumption DEF Restart, BeginStart
  <2>4. state # "DRAINING" /\ registered' = registered
    BY <1>3 DEF Restart, BeginStart
  <2> QED
    BY <2>2, <2>3, <2>4, OutsideStop DEF TeardownLabels
<1>4. CASE Terminated(s)
  BY <1>1, <1>4, InsideAlone, StartTornDownStop DEF Terminated, HoldingLabels, TeardownLabels
<1> QED
  BY <1>1, <1>2, <1>3, <1>4, StartingStop, InsideStop DEF SupervisorStep, Terminating

LEMMA MonitorStop ==
    ASSUME ProcessInv, TypeOK', StopInv, NEW p \in Procs, MonitorStep(p) \/ Exit(p)
    PROVE  StopInv'
<1> USE DEF ProcessInv, TypeOK, PcOK
<1>1. /\ p \in Tasks /\ p \notin {Checker, Reload, Main} /\ p \notin Requests \cup Supervisors
      /\ {Checker, Reload, Main} \cup Requests \subseteq Tasks
      /\ ({Checker, Reload, Main} \cup Requests) \cap Supervisors = {}
  BY TasksAssumption DEF Tasks
<1>2. CASE AwaitMonitor(p) \/ MonitorStale(p) \/ MonitorClears(p) \/ Exit(p)
  <2>1. /\ UNCHANGED <<state, final, registered>>
        /\ \A u \in Tasks : u # p => pc'[u] = pc[u]
        /\ pc'[p] \in {pc[p], "qMonitor", "mLogs", "done"}
        /\ \A q \in Procs : os'[q] \in {os[q], "dead"}
    BY <1>1, <1>2 DEF AwaitMonitor, MonitorStale, MonitorClears, Exit, Wait, Goto
  <2>2. Leases' = Leases
    BY <1>1, <2>1 DEF Leases
  <2>3. \A u \in {Checker, Reload, Main} : pc'[u] = pc[u]
    BY <1>1, <2>1
  <2>4. \A u \in Tasks : pc'[u] \in TeardownLabels => pc'[u] = pc[u]
    BY <2>1 DEF TeardownLabels
  <2> QED
    BY <2>1, <2>2, <2>3, <2>4, OutsideStop DEF WindsDown
<1>3. CASE MonitorEnds(p)
  <2>1. \A u \in Tasks : pc[u] \notin TeardownLabels
    BY <1>1, <1>3, InsideAlone DEF MonitorEnds, HoldingLabels, TeardownLabels
  <2>2. /\ \A u \in Tasks : pc'[u] \in {pc[u], "top", "done"}
        /\ \A u \in {Checker, Reload, Main} \cup Requests : pc'[u] = pc[u]
    BY <1>1, <1>3 DEF MonitorEnds, Schedule
  <2>3. Leases' = Leases
    BY <2>2 DEF Leases
  <2>4. /\ state = "DRAINING" => state' = state
        /\ UNCHANGED <<registered, os>>
    BY <1>3 DEF MonitorEnds
  <2> QED
    BY <2>1, <2>2, <2>3, <2>4, OutsideStop DEF TeardownLabels, WindsDown
<1> QED
  BY <1>2, <1>3 DEF MonitorStep

(* The sweep stops what it has just found running and idle: neither a      *)
(* retirement nor another teardown is under way.                           *)
LEMMA CheckerStop ==
    ASSUME ProcessInv, TypeOK', QueueInv, StopInv, CheckerStep \/ TimePasses
    PROVE  StopInv'
<1> USE DEF ProcessInv, TypeOK, PcOK
<1>1. /\ Checker \in Tasks \ Procs /\ Checker # Reload /\ Checker # Main
      /\ Checker \notin Requests \cup Supervisors
      /\ {Reload, Main} \cup Requests \cup Supervisors \subseteq Tasks
  BY TasksAssumption DEF Tasks
<1>2. CASE AwaitSweep \/ SweepSkips \/ TimePasses
  <2>1. /\ UNCHANGED <<state, final, registered, os>>
        /\ \A u \in Tasks : u # Checker => pc'[u] = pc[u]
        /\ \/ pc'[Checker] = pc[Checker]
           \/ pc'[Checker] \in {"cSleep", "qSweep"} /\ pc[Checker] # "done"
    BY <1>1, <1>2 DEF AwaitSweep, SweepSkips, TimePasses, EnterSweep, Entering, Wait, Goto
  <2>2. Leases' = Leases
    BY <1>1, <2>1 DEF Leases
  <2>3. \A u \in Tasks : pc'[u] \in TeardownLabels => pc'[u] = pc[u]
    BY <2>1 DEF TeardownLabels
  <2> QED
    BY <1>1, <2>1, <2>2, <2>3, StopFrame DEF WindsDown
<1>3. CASE SweepDrains
  <2>1. owner \in {None, Checker} /\ pc[Checker] \in {"cSleep", "qSweep"}
    BY <1>3 DEF SweepDrains, EnterSweep, Entering
  <2>2. \A u \in Tasks : pc[u] \notin TeardownLabels
    BY <1>1, <2>1, EnterAlone DEF HoldingLabels, StartLabels, TeardownLabels
  <2>3. state = "RUNNING" /\ Leases = {} /\ state' = "DRAINING" /\ ~Retiring
    BY <1>3 DEF SweepDrains, StillIdle, StopInv
  <2>4. waiters = <<>>
    BY <1>1, <1>3, <2>1, TasksAssumption
       DEF SweepDrains, StillIdle, QueueInv, HoldingLabels, StartLabels, TeardownLabels
  <2>5. EnterTerminate(Checker, "STOPPED")
    BY <1>3, <2>4 DEF SweepDrains
  <2>6. /\ pc'[Checker] = "tTasks" /\ final' = "STOPPED"
        /\ \A u \in Tasks \ {Checker} : pc'[u] \in {pc[u], "done"}
        /\ pc'[Reload] = pc[Reload] /\ pc'[Main] = pc[Main]
        /\ Leases' = {} /\ UNCHANGED <<os, registered>>
    BY <1>1, <2>3, <2>5, EnterTerminateTasks
  <2>7. ~Retiring'
    BY <2>3, <2>6 DEF Retiring, Retires
  <2>8. \A u \in Tasks \ {Checker} : pc'[u] \notin TeardownLabels
    BY <2>2, <2>6 DEF TeardownLabels
  <2>9. pc[Main] = "up"
    BY <2>1 DEF StopInv
  <2> QED
    BY <1>1, <2>3, <2>6, <2>7, <2>8, <2>9 DEF StopInv, TeardownLabels, Retiring, Retires
<1>4. CASE SweepStops
  BY <1>4 DEF SweepStops, StopInv
<1>5. CASE Terminated(Checker)
  <2>1. /\ pc[Checker] \in TeardownLabels /\ UNCHANGED <<os, registered>>
        /\ state' = final
    BY <1>5 DEF Terminated, TeardownLabels
  <2>2. final = "STOPPED" /\ Leases = {} /\ ~Retiring /\ pc[Main] = "up"
    BY <2>1 DEF StopInv, TeardownLabels
  <2>3. pc' = [pc EXCEPT ![Checker] = AfterTerminate(Checker)]
    BY <1>5, <2>2 DEF Terminated
  <2>4. AfterTerminate(Checker) = "cSleep"
    BY TasksAssumption DEF AfterTerminate
  <2>5. \A u \in Tasks \ {Checker} : pc[u] \notin TeardownLabels
    BY <1>1, <2>1, InsideAlone DEF HoldingLabels
  <2>6. pc'[Checker] = "cSleep" /\ \A u \in Tasks \ {Checker} : pc'[u] = pc[u]
    BY <1>1, <2>3, <2>4
  <2>7. ~Retiring' /\ Leases' = {}
    BY <1>1, <2>1, <2>2, <2>6 DEF Retiring, Retires, Leases
  <2> QED
    BY <1>1, <2>1, <2>2, <2>5, <2>6, <2>7 DEF StopInv, TeardownLabels, Retiring, Retires, Emptied
<1> QED
  BY <1>1, <1>2, <1>3, <1>4, <1>5, InsideStop DEF CheckerStep, Terminating

(* Only one of the two ever retires the runtime: the lifespan does so when *)
(* the reload task has ended.                                              *)
LEMMA OneRetires ==
    ASSUME StopInv
    PROVE  /\ pc[Reload] # "done" => pc[Main] \in {"up", "joined"}
           /\ pc[Main] \notin {"up", "joined"} => pc[Reload] = "done" /\ pc[Checker] = "done"
BY DEF StopInv

LEMMA DrainingStop ==
    ASSUME ProcessInv, TypeOK', StopInv, NEW t \in {Reload, Main}, Draining(t)
    PROVE  StopInv'
<1> USE DEF ProcessInv, TypeOK, PcOK
<1> DEFINE other == IF t = Reload THEN Main ELSE Reload
<1>1. /\ t \in Tasks \ Procs /\ t # Checker /\ t \notin Requests \cup Supervisors
      /\ Checker \in Tasks /\ other \in Tasks /\ other # t /\ other # Checker
      /\ Requests \cup Supervisors \subseteq Tasks /\ {Reload, Main} = {t, other}
      /\ Reload # Main
  BY TasksAssumption DEF Tasks
<1>2. pc[t] \notin {"up", "joined", "done"} =>
        /\ ~Retires(other)
        /\ t = Reload => pc[Main] \in {"up", "joined"}
        /\ t = Main => pc[Reload] = "done" /\ pc[Checker] = "done"
  BY <1>1, OneRetires DEF Retires, TeardownLabels
<1>3. CASE AwaitMark(t)
  <2>1. /\ UNCHANGED <<state, final, registered, os>> /\ registered
        /\ \A u \in Tasks : u # t => pc'[u] = pc[u]
        /\ pc'[t] = "qMark" /\ pc[t] = DrainBegin(t)
    BY <1>1, <1>3 DEF AwaitMark, MayDrain, Wait, Goto
  <2>2. Leases' = Leases
    BY <1>1, <2>1 DEF Leases
  <2>3. pc[t] \in {"watch", "stopped"} /\ (t = Reload => pc[t] = "watch")
    BY <2>1 DEF DrainBegin
  <2>4. \A u \in {Reload, Main} : Retires(u)' <=> Retires(u)
    BY <1>1, <2>1, <2>3 DEF Retires, TeardownLabels
  <2>5. (Retiring' <=> Retiring) /\ (Emptied' => Emptied)
    BY <1>1, <2>1, <2>4 DEF Retiring, Emptied, TeardownLabels
  <2> QED
    BY <1>1, <1>2, <2>1, <2>2, <2>3, <2>5 DEF StopInv, TeardownLabels
<1>4. CASE MarkDraining(t)
  <2>1. /\ UNCHANGED <<final, registered, os>> /\ registered /\ state' = "DRAINING"
        /\ \A u \in Tasks : u # t => pc'[u] = pc[u]
        /\ pc'[t] = "dWait" /\ pc[t] \in {DrainBegin(t), "qMark"} /\ owner \in {None, t}
    BY <1>1, <1>4 DEF MarkDraining, MayDrain, Entering, Goto
  <2>2. pc[t] \in {"watch", "stopped", "qMark"}
    BY <2>1 DEF DrainBegin
  <2>3. \A u \in Tasks : pc[u] \notin TeardownLabels
    BY <1>1, <2>1, <2>2, EnterAlone DEF HoldingLabels, StartLabels, TeardownLabels
  <2>4. Leases' = Leases
    BY <1>1, <2>1 DEF Leases
  <2>5. ~Emptied'
    BY <1>1, <1>2, <2>1, <2>2 DEF Emptied, Retires, TeardownLabels
  <2> QED
    BY <1>1, <1>2, <2>1, <2>2, <2>3, <2>5 DEF StopInv, TeardownLabels
<1>5. CASE AwaitDrained(t)
  <2>1. /\ UNCHANGED <<state, final, registered, os>>
        /\ \A u \in Tasks : u # t => pc'[u] = pc[u]
        /\ pc'[t] = "qDrain" /\ pc[t] = "dWait" /\ Leases = {}
    BY <1>1, <1>5 DEF AwaitDrained, Wait, Goto
  <2>2. Leases' = Leases
    BY <1>1, <2>1 DEF Leases
  <2>3. Retiring /\ state = "DRAINING"
    BY <2>1 DEF Retiring, Retires, StopInv
  <2>4. \A u \in Requests \cup Supervisors \cup {Checker} : pc[u] \notin TeardownLabels
    BY <2>3 DEF StopInv
  <2> QED
    BY <1>1, <1>2, <2>1, <2>2, <2>3, <2>4 DEF StopInv, Retires, TeardownLabels
<1>6. CASE Drained(t)
  <2>1. /\ pc[t] \in {"dWait", "qDrain"} /\ owner \in {None, t}
        /\ EnterTerminate(t, IF t = Reload THEN "DRAINING" ELSE "STOPPED")
        /\ pc[t] = "dWait" => Leases = {}
        /\ state' = state
    BY <1>6 DEF Drained, Entering
  <2>2. state = "DRAINING" /\ Leases = {}
    BY <2>1 DEF StopInv, Retiring, Retires, Emptied
  <2>3. \A u \in Tasks : pc[u] \notin TeardownLabels
    BY <1>1, <2>1, EnterAlone DEF HoldingLabels, StartLabels, TeardownLabels
  <2>4. /\ pc'[t] = "tTasks" /\ final' = IF t = Reload THEN "DRAINING" ELSE "STOPPED"
        /\ \A u \in Tasks \ {t} : pc'[u] \in {pc[u], "done"}
        /\ pc'[other] = pc[other] /\ pc'[Checker] = pc[Checker]
        /\ Leases' = {} /\ UNCHANGED <<os, registered>>
    BY <1>1, <2>1, <2>2, EnterTerminateTasks
  <2>5. \A u \in Tasks \ {t} : pc'[u] \notin TeardownLabels
    BY <2>3, <2>4 DEF TeardownLabels
  <2> QED
    BY <1>1, <1>2, <2>1, <2>2, <2>4, <2>5 DEF StopInv, TeardownLabels
<1> QED
  BY <1>3, <1>4, <1>5, <1>6 DEF Draining

(* Without the process it refers to, a runtime has no process at all. *)
LEMMA NoProcess ==
    ASSUME TypeOK, NoOrphan, ~IsRunning PROVE \A p \in Procs : os[p] = "dead"
<1> SUFFICES ASSUME NEW p \in Procs, os[p] # "dead" PROVE FALSE
  OBVIOUS
<1>1. os[p] = "alive"
  BY DEF TypeOK
<1>2. process = p /\ p # None
  BY <1>1, TasksAssumption DEF NoOrphan, Tasks
<1> QED
  BY <1>1, <1>2 DEF IsRunning

(* A retirement's teardown leaves no process, and the state it stands for. *)
LEMMA RetiredStop ==
    ASSUME ProcessInv, TypeOK', StopInv, NEW t \in {Reload, Main}, Terminated(t)
    PROVE  StopInv'
<1> USE DEF ProcessInv, TypeOK, PcOK
<1>1. /\ t \in Tasks \ Procs /\ t # Checker /\ t \notin Requests \cup Supervisors
      /\ {Checker, Reload, Main} \cup Requests \cup Supervisors \subseteq Tasks
      /\ Reload # Main /\ Checker # Reload /\ Checker # Main
  BY TasksAssumption DEF Tasks
<1>2. /\ pc[t] = "tLogs" /\ UNCHANGED <<os, registered, final>> /\ state' = final
  BY DEF Terminated
<1>3. /\ state = "DRAINING" /\ Leases = {}
      /\ final = IF t = Reload THEN "DRAINING" ELSE "STOPPED"
  BY <1>1, <1>2 DEF StopInv, Retiring, Retires, Emptied, TeardownLabels
<1>4. pc' = [pc EXCEPT ![t] = AfterTerminate(t)]
  BY <1>3 DEF Terminated
<1>5. AfterTerminate(t) = IF t = Reload THEN "publish" ELSE "down"
  BY TasksAssumption DEF AfterTerminate
<1>6. pc'[t] = AfterTerminate(t) /\ \A u \in Tasks \ {t} : pc'[u] = pc[u]
  BY <1>1, <1>4
<1>7. \A u \in Tasks \ {t} : pc[u] \notin TeardownLabels
  BY <1>1, <1>2, InsideAlone DEF HoldingLabels, TeardownLabels
<1>8. \A p \in Procs : os[p] = "dead"
  <2>1. ~IsRunning
    BY <1>1, <1>2 DEF LockCoversLifecycle
  <2> QED
    BY <2>1, NoProcess
<1>9. Leases' = {}
  BY <1>1, <1>3, <1>6 DEF Leases
<1>10. \A u \in Tasks : pc'[u] \notin TeardownLabels
  BY <1>5, <1>6, <1>7 DEF TeardownLabels
<1>11. CASE t = Reload
  BY <1>1, <1>2, <1>3, <1>5, <1>6, <1>8, <1>9, <1>10, <1>11 DEF StopInv, TeardownLabels
<1>12. CASE t = Main
  <2>1. registered /\ pc[Reload] = "done" /\ pc[Checker] = "done"
    BY <1>2, <1>12 DEF StopInv, TeardownLabels
  <2>2. ~Retiring'
    BY <1>1, <1>2, <1>5, <1>6, <1>12, <2>1 DEF Retiring, Retires, TeardownLabels
  <2> QED
    BY <1>1, <1>2, <1>5, <1>6, <1>9, <1>10, <1>12, <2>1, <2>2 DEF StopInv
<1> QED
  BY <1>11, <1>12

LEMMA GatewayStop ==
    ASSUME ProcessInv, TypeOK', StopInv,
           ReloadStep \/ Reconfigure \/ MainStep \/ BeginShutdown, pc[Main] # "down"
    PROVE  StopInv'
<1> USE DEF ProcessInv, TypeOK, PcOK
<1>1. /\ {Checker, Reload, Main} \cup Requests \cup Supervisors \subseteq Tasks
      /\ {Reload, Main} \subseteq Tasks \ Procs
      /\ {Checker, Reload, Main} \cap (Requests \cup Supervisors) = {}
      /\ Requests \cap Supervisors = {}
      /\ Reload # Main /\ Checker # Reload /\ Checker # Main
  BY TasksAssumption DEF Tasks
<1>2. CASE Publish
  <2>1. /\ pc[Reload] = "publish" /\ pc'[Reload] = "watch" /\ ~registered'
        /\ \A u \in Tasks : u # Reload => pc'[u] = pc[u]
        /\ UNCHANGED <<state, final, os>>
    BY <1>1, <1>2 DEF Publish, Goto
  <2>2. /\ state = "DRAINING" /\ Leases = {} /\ pc[Main] \in {"up", "joined"}
        /\ \A p \in Procs : os[p] = "dead"
    BY <2>1, OneRetires DEF StopInv, Retiring, Retires, Emptied
  <2>3. Leases' = {}
    BY <1>1, <2>1, <2>2 DEF Leases
  <2>4. \A u \in Requests \cup Supervisors \cup {Checker} : pc[u] \notin TeardownLabels
    BY <2>1, <2>2 DEF StopInv, Retiring, Retires
  <2> QED
    BY <1>1, <2>1, <2>2, <2>3, <2>4 DEF StopInv, TeardownLabels
<1>3. CASE Reconfigure
  <2>1. /\ UNCHANGED <<state, final, registered, os>>
        /\ \A u \in Tasks : pc'[u] # pc[u] => u \in Supervisors /\ pc'[u] = "top"
    BY <1>3 DEF Reconfigure, Schedule
  <2>2. Leases' = Leases
    BY <1>1, <2>1 DEF Leases
  <2>3. \A u \in {Checker, Reload, Main} : pc'[u] = pc[u]
    BY <1>1, <2>1
  <2>4. \A u \in Tasks : pc'[u] \in TeardownLabels => pc'[u] = pc[u]
    BY <2>1 DEF TeardownLabels
  <2> QED
    BY <2>1, <2>2, <2>3, <2>4, OutsideStop DEF WindsDown
<1>4. CASE BeginShutdown
  <2>1. /\ UNCHANGED <<state, final, registered, os>> /\ pc[Main] = "up"
        /\ pc'[Main] = "joined" /\ pc'[Checker] = "done"
        /\ \A u \in Tasks \ {Main, Checker} : pc'[u] = pc[u]
    BY <1>1, <1>4 DEF BeginShutdown
  <2>2. Leases' = Leases
    BY <1>1, <2>1 DEF Leases
  <2>3. (Retiring' <=> Retiring) /\ (Emptied' <=> Emptied)
    BY <1>1, <2>1 DEF Retiring, Retires, Emptied, TeardownLabels
  <2> QED
    BY <1>1, <2>1, <2>2, <2>3 DEF StopInv, TeardownLabels
<1>5. CASE StopWatcher
  <2>1. /\ UNCHANGED <<state, final, registered, os>> /\ pc[Main] = "joined"
        /\ pc'[Main] = "stopped" /\ pc'[Reload] = "done"
        /\ \A u \in Tasks \ {Main, Reload} : pc'[u] = pc[u]
    BY <1>1, <1>5 DEF StopWatcher
  <2>2. Leases' = Leases
    BY <1>1, <2>1 DEF Leases
  <2>3. (Retiring' => Retiring) /\ (Emptied' => Emptied)
    BY <1>1, <2>1 DEF Retiring, Retires, Emptied, TeardownLabels
  <2> QED
    BY <1>1, <2>1, <2>2, <2>3 DEF StopInv, TeardownLabels
<1>6. CASE NothingToClean
  <2>1. /\ UNCHANGED <<state, final, registered, os>> /\ pc[Main] = "stopped"
        /\ pc'[Main] = "down"
        /\ \A u \in Tasks \ {Main} : pc'[u] = pc[u]
    BY <1>1, <1>6 DEF NothingToClean, Goto
  <2>2. Leases' = Leases
    BY <1>1, <2>1 DEF Leases
  <2>3. (Retiring' => Retiring) /\ (Emptied' => Emptied)
    BY <1>1, <2>1 DEF Retiring, Retires, Emptied, TeardownLabels
  <2> QED
    BY <1>1, <2>1, <2>2, <2>3 DEF StopInv, TeardownLabels
<1> QED
  BY <1>1, <1>2, <1>3, <1>4, <1>5, <1>6, DrainingStop, RetiredStop, InsideStop
     DEF ReloadStep, MainStep, Terminating

LEMMA NextRefinement == RefinementInv /\ Orderly /\ [Next]_vars => RefinementInv'
<1> SUFFICES ASSUME RefinementInv, Orderly, [Next]_vars PROVE RefinementInv'
  OBVIOUS
<1>1. ProcessInv'
  BY NextProcess DEF RefinementInv, Orderly
<1>2. TypeOK /\ LockInv'
  BY NextLock DEF RefinementInv, ProcessInv
<1>3. CASE pc[Main] # "down" /\ Running
  <2>1. QueueInv'
    <3>1. \A t \in {Checker, Reload} : pc[t] \in TeardownLabels => state # "RUNNING"
      BY DEF RefinementInv, StopInv, Retiring, Retires
    <3> QED
      BY <1>2, <1>3, <3>1, RequestQueue, SupervisorQueue, MonitorQueue, CheckerQueue, GatewayQueue
         DEF Running, RefinementInv, Orderly
  <2>2. StopInv'
    BY <1>1, <1>3, RequestStop, SupervisorStop, MonitorStop, CheckerStop, GatewayStop
       DEF Running, RefinementInv, Orderly, ProcessInv
  <2> QED
    BY <1>1, <1>2, <2>1, <2>2 DEF RefinementInv
<1>4. CASE UNCHANGED vars
  BY <1>1, <1>2, <1>4 DEF vars, RefinementInv, QueueInv, StopInv, Leases, Retiring, Retires, Emptied
<1> QED
  BY <1>3, <1>4 DEF Next

LEMMA InitRefinement == Init => RefinementInv
<1> SUFFICES ASSUME Init PROVE RefinementInv
  OBVIOUS
<1>1. ProcessInv
  BY InitProcess
<1>2. /\ \A r \in Requests : pc[r] = "idle"
      /\ \A s \in Supervisors : pc[s] = "done"
      /\ pc[Checker] = "cSleep" /\ pc[Reload] = "watch" /\ pc[Main] = "up"
  BY TasksAssumption DEF Init, Tasks
<1>3. QueueInv
  BY DEF Init, QueueInv
<1>4. StopInv
  BY <1>2 DEF Init, StopInv, Retiring, Retires, Emptied, Leases, TeardownLabels
<1> QED
  BY <1>1, <1>3, <1>4, InitLock DEF RefinementInv

(***************************************************************************)
(* Each step of a task is a step of the lifecycle, or none                 *)
(***************************************************************************)

Live == {p \in Procs : os[p] = "alive"}

Simulates == [Lifecycle!Next]_(Lifecycle!lifecycle)

LEMMA Stutters ==
    ASSUME UNCHANGED <<state, os, registered>>, Leases' = Leases PROVE Simulates
BY DEF Simulates, Lifecycle!lifecycle

LEMMA SameLeases ==
    ASSUME \A r \in Requests : pc'[r] = "leased" <=> pc[r] = "leased" PROVE Leases' = Leases
BY DEF Leases

LEMMA LiveIsRunning == ASSUME TypeOK, NoOrphan PROVE Live = IF IsRunning THEN {process} ELSE {}
<1>1. CASE IsRunning
  BY <1>1 DEF TypeOK, NoOrphan, IsRunning, Live
<1>2. CASE ~IsRunning
  BY <1>2, NoProcess DEF Live
<1> QED
  BY <1>1, <1>2

(* A runtime that can still change is listed. *)
LEMMA StillListed ==
    ASSUME TypeOK, StopInv, state # "DRAINING" \/ Leases # {} \/ Live # {} PROVE registered
BY DEF StopInv, Retiring, Emptied, Live

LEMMA Activates ==
    ASSUME RefinementInv, NEW t \in Requests \cup Supervisors, owner \in {None, t},
           pc[t] \in {"captured", "qStart", "sleep", "qAgain"}, BeginStart(t)
    PROVE  Simulates
<1> USE DEF RefinementInv, ProcessInv, TypeOK, PcOK
<1>1. t \in Tasks /\ Requests \subseteq Tasks /\ Requests \cap Supervisors = {} /\ None \notin Tasks
  BY TasksAssumption DEF Tasks
<1>2. state # "STARTING"
  BY <1>1, EnterAlone DEF HoldingLabels, StartLabels, TeardownLabels
<1>3. state \in {"STOPPED", "FAILED", "RUNNING"} /\ ~IsRunning
  BY <1>2 DEF BeginStart, States, LockCoversLifecycle, IsRunning
<1>4. Live = {} /\ registered
  BY <1>3, LiveIsRunning, StillListed
<1>5. state' = "STARTING" /\ UNCHANGED <<os, registered>>
  BY DEF BeginStart
<1>6. Leases' = Leases
  <2>1. \A r \in Requests : pc'[r] \in {pc[r], "spawn"} /\ (r = t => pc'[r] = "spawn")
    BY <1>1 DEF BeginStart
  <2>2. \A r \in Requests : r # t => pc'[r] = pc[r]
    BY <1>1 DEF BeginStart
  <2> QED
    BY <2>1, <2>2, SameLeases
<1>7. Lifecycle!Activate
  BY <1>3, <1>4, <1>5, <1>6 DEF Lifecycle!Activate, Live
<1> QED
  BY <1>4, <1>7 DEF Simulates, Lifecycle!Next

LEMMA StartingSimulates ==
    ASSUME RefinementInv, NEW t \in Requests \cup Supervisors, Starting(t)
    PROVE  Simulates
<1> USE DEF RefinementInv, ProcessInv, TypeOK, PcOK
<1>1. /\ t \in Tasks /\ t \notin Procs /\ Requests \cup Procs \subseteq Tasks
      /\ Requests \cap (Supervisors \cup Procs) = {}
  BY TasksAssumption DEF Tasks
<1>2. pc[t] \in StartLabels
  BY DEF Starting, Spawn, PortOpen, Ready, StartFails, StartLabels
<1>3. state = "STARTING" /\ registered
  BY <1>1, <1>2, StillListed DEF LockCoversLifecycle
<1>4. CASE Spawn(t)
  <2>1. Live = {}
    BY <1>1, <1>4, LiveIsRunning DEF Spawn, LockCoversLifecycle
  <2>2. PICK p \in Procs : /\ os' = [os EXCEPT ![p] = "alive"]
                           /\ pc' = [pc EXCEPT ![t] = "port", ![p] = "mWait"]
    BY <1>4 DEF Spawn
  <2>3. Live' = {p}
    BY <2>1, <2>2 DEF Live
  <2>4. \A r \in Requests : pc'[r] = IF r = t THEN "port" ELSE pc[r]
    BY <1>1, <2>2
  <2>5. Leases' = Leases
    BY <1>2, <2>4, SameLeases DEF StartLabels
  <2>6. UNCHANGED <<state, registered>>
    BY <1>4 DEF Spawn
  <2>7. Lifecycle!Launch
    BY <1>3, <2>1, <2>3, <2>5, <2>6 DEF Lifecycle!Launch, Live
  <2> QED
    BY <1>3, <2>7 DEF Simulates, Lifecycle!Next
<1>5. CASE PortOpen(t)
  <2>1. Leases' = Leases
    BY <1>1, <1>2, <1>5, SameLeases DEF PortOpen, Goto, StartLabels
  <2> QED
    BY <1>5, <2>1, Stutters DEF PortOpen
<1>6. CASE Ready(t)
  <2>1. state' = "RUNNING" /\ UNCHANGED <<os, registered>>
    BY <1>6 DEF Ready
  <2>2. Leases' = Leases \/ \E r \in Requests : Leases' = Leases \cup {r}
    <3>1. CASE t \in Requests /\ GrantLease(t)
      <4>1. pc'[t] = "leased" /\ \A r \in Requests : r # t => pc'[r] = pc[r]
        BY <1>1, <3>1 DEF GrantLease, Goto
      <4>2. Leases' = Leases \cup {t}
        BY <3>1, <4>1 DEF Leases
      <4> QED
        BY <3>1, <4>2
    <3>2. CASE t \in Supervisors /\ Goto(t, "done")
      BY <1>1, <3>2, SameLeases DEF Goto
    <3> QED
      BY <1>6, <3>1, <3>2 DEF Ready
  <2>3. Lifecycle!Serve
    BY <1>3, <2>1, <2>2 DEF Lifecycle!Serve
  <2> QED
    BY <1>3, <2>3 DEF Simulates, Lifecycle!Next
<1>7. CASE StartFails(t)
  <2>1. Leases' = Leases \ {t} /\ t \notin Leases /\ UNCHANGED <<state, os, registered>>
    BY <1>1, <1>2, <1>7, EnterTerminateTasks DEF StartFails, Leases, StartLabels
  <2> QED
    BY <2>1, Stutters
<1> QED
  BY <1>4, <1>5, <1>6, <1>7 DEF Starting

LEMMA TerminatingSimulates ==
    ASSUME RefinementInv, Orderly, NEW t \in Tasks \ Procs, Terminating(t)
    PROVE  Simulates
<1> USE DEF RefinementInv, ProcessInv, TypeOK, PcOK
<1>1. /\ Requests \cap Supervisors = {} /\ Requests \subseteq Tasks
      /\ t \in Requests \cup Supervisors \cup {Checker, Reload, Main}
      /\ {Checker, Reload, Main} \cap (Requests \cup Supervisors) = {}
      /\ Checker # Reload /\ Checker # Main /\ Reload # Main
  BY TasksAssumption DEF Tasks
<1>2. pc[t] \in TeardownLabels
  BY DEF Terminating, Signal, Kill, Reaped, SignalError, Terminated, TeardownLabels
<1>3. CASE Signal(t) \/ Kill(t) \/ Reaped(t) \/ SignalError(t)
  <2>1. /\ UNCHANGED <<state, os, registered>> /\ pc'[t] \in TeardownLabels
        /\ \A r \in Requests : r # t => pc'[r] = pc[r]
    BY <1>1, <1>3 DEF Signal, Kill, Reaped, SignalError, Goto, TeardownLabels
  <2>2. Leases' = Leases
    BY <1>2, <2>1, SameLeases DEF TeardownLabels
  <2> QED
    BY <2>1, <2>2, Stutters
<1>4. CASE Terminated(t)
  <2>1. /\ pc[t] = "tLogs" /\ state' = final /\ UNCHANGED <<os, registered>>
    BY <1>4 DEF Terminated
  <2>2. Live = {}
    BY <2>1, LiveIsRunning DEF LockCoversLifecycle
  <2>3. AfterTerminate(t) # "leased"
    BY <1>1, TasksAssumption DEF AfterTerminate
  <2>4. \A r \in Requests : pc'[r] = IF r = t THEN AfterTerminate(t) ELSE pc[r]
    BY <1>1, <1>4 DEF Terminated, Schedule
  <2>5. Leases' = Leases
    BY <2>1, <2>3, <2>4, SameLeases
  <2>6. CASE t \in Requests \cup Supervisors
    <3>1. state = "STARTING" /\ final \in {"STOPPED", "FAILED"} /\ registered
      BY <1>2, <2>6, StillListed DEF StopInv
    <3>2. Lifecycle!Fail
      BY <2>1, <2>2, <2>5, <3>1 DEF Lifecycle!Fail, Live
    <3> QED
      BY <3>1, <3>2 DEF Simulates, Lifecycle!Next
  <2>7. CASE t \in {Checker, Main}
    <3>1. state = "DRAINING" /\ final = "STOPPED" /\ Leases = {} /\ registered
      BY <1>2, <2>7 DEF StopInv, Retiring, Retires, Emptied
    <3>2. Lifecycle!Rest
      BY <2>1, <2>2, <2>5, <3>1 DEF Lifecycle!Rest, Live
    <3> QED
      BY <3>1, <3>2 DEF Simulates, Lifecycle!Next
  <2>8. CASE t = Reload
    <3>1. state = "DRAINING" /\ final = "DRAINING"
      BY <1>2, <2>8 DEF StopInv, Retiring, Retires
    <3> QED
      BY <2>1, <2>5, <3>1, Stutters
  <2> QED
    BY <1>1, <2>6, <2>7, <2>8
<1> QED
  BY <1>3, <1>4 DEF Terminating

LEMMA RequestSimulates ==
    ASSUME RefinementInv, Orderly, NEW r \in Requests,
           \/ RequestStep(r) \/ Capture(r) \/ Finish(r)
           \/ CancelWaiting(r) \/ CancelStart(r) \/ CancelTeardown(r)
    PROVE  Simulates
<1> USE DEF RefinementInv, ProcessInv, TypeOK, PcOK
<1>1. r \in Tasks \ Procs /\ Requests \subseteq Tasks
  BY TasksAssumption DEF Tasks
<1>2. CASE Capture(r) \/ Reject(r) \/ AwaitStart(r) \/ StartRefused(r) \/ CancelWaiting(r)
  <2>1. /\ UNCHANGED <<state, os, registered>>
        /\ pc[r] \in {"idle", "captured", "qStart"} /\ pc'[r] \in {"idle", "captured", "qStart"}
        /\ \A q \in Requests : q # r => pc'[q] = pc[q]
    BY <1>1, <1>2 DEF Capture, Reject, AwaitStart, StartRefused, CancelWaiting, EnterStart,
       Entering, Wait, Goto
  <2> QED
    BY <2>1, SameLeases, Stutters
<1>3. CASE AcquireLease(r) \/ StartFound(r)
  <2>1. /\ UNCHANGED <<state, os, registered>> /\ state = "RUNNING" /\ IsRunning
        /\ pc[r] \in {"captured", "qStart"} /\ pc'[r] = "leased"
        /\ \A q \in Requests : q # r => pc'[q] = pc[q]
    BY <1>1, <1>3 DEF AcquireLease, StartFound, EnterStart, Entering, GrantLease, Goto
  <2>2. r \notin Leases /\ Leases' = Leases \cup {r}
    BY <2>1 DEF Leases
  <2>3. Live # {} /\ registered
    BY <2>1, LiveIsRunning, StillListed
  <2>4. Lifecycle!Grant
    BY <2>1, <2>2, <2>3 DEF Lifecycle!Grant, Live
  <2> QED
    BY <2>3, <2>4 DEF Simulates, Lifecycle!Next
<1>4. CASE StartOnDemand(r)
  BY <1>4, Activates DEF StartOnDemand, EnterStart, Entering
<1>5. CASE Finish(r)
  <2>1. /\ UNCHANGED <<state, os, registered>>
        /\ pc[r] = "leased" /\ pc'[r] = "idle" /\ \A q \in Requests : q # r => pc'[q] = pc[q]
    BY <1>1, <1>5 DEF Finish, Goto
  <2>2. r \in Leases /\ Leases' = Leases \ {r}
    BY <2>1 DEF Leases
  <2>3. registered
    BY <2>2, StillListed
  <2>4. Lifecycle!Return
    BY <2>1, <2>2 DEF Lifecycle!Return
  <2> QED
    BY <2>3, <2>4 DEF Simulates, Lifecycle!Next
<1>6. CASE CancelStart(r)
  <2>1. Leases' = Leases \ {r} /\ r \notin Leases /\ UNCHANGED <<state, os, registered>>
    BY <1>1, <1>6, EnterTerminateTasks DEF CancelStart, Leases, StartLabels
  <2> QED
    BY <2>1, Stutters
<1>7. CASE CancelTeardown(r)
  BY <1>7 DEF CancelTeardown, Orderly, TeardownsEnd
<1> QED
  BY <1>1, <1>2, <1>3, <1>4, <1>5, <1>6, <1>7, StartingSimulates, TerminatingSimulates
     DEF RequestStep

LEMMA SupervisorSimulates ==
    ASSUME RefinementInv, Orderly, NEW s \in Supervisors, SupervisorStep(s)
    PROVE  Simulates
<1> USE DEF RefinementInv, ProcessInv, TypeOK, PcOK
<1>1. s \in Tasks \ Procs /\ s \notin Requests /\ Requests \subseteq Tasks
  BY TasksAssumption DEF Tasks
<1>2. CASE AwaitTop(s) \/ Reserve(s) \/ AwaitRestart(s) \/ GiveUp(s)
  <2>1. /\ UNCHANGED <<state, os, registered>>
        /\ \A r \in Requests : pc'[r] = pc[r]
    BY <1>1, <1>2 DEF AwaitTop, Reserve, AwaitRestart, GiveUp, Wait, Goto
  <2> QED
    BY <2>1, SameLeases, Stutters
<1>3. CASE Restart(s)
  BY <1>3, Activates DEF Restart, Entering
<1> QED
  BY <1>1, <1>2, <1>3, StartingSimulates, TerminatingSimulates DEF SupervisorStep

LEMMA MonitorSimulates ==
    ASSUME RefinementInv, NEW p \in Procs, MonitorStep(p) \/ Exit(p)
    PROVE  Simulates
<1> USE DEF RefinementInv, ProcessInv, TypeOK, PcOK
<1>1. /\ p \in Tasks /\ p \notin Requests \cup Supervisors
      /\ Requests \subseteq Tasks /\ Requests \cap Supervisors = {}
  BY TasksAssumption DEF Tasks
<1>2. CASE AwaitMonitor(p) \/ MonitorStale(p) \/ MonitorClears(p)
  <2>1. /\ UNCHANGED <<state, os, registered>>
        /\ \A r \in Requests : pc'[r] = pc[r]
    BY <1>1, <1>2 DEF AwaitMonitor, MonitorStale, MonitorClears, Wait, Goto
  <2> QED
    BY <2>1, SameLeases, Stutters
<1>3. CASE MonitorEnds(p)
  <2>1. /\ pc[p] = "mLogs" /\ UNCHANGED <<os, registered>>
        /\ state' = IF state \in {"DRAINING", "STOPPED"} THEN state ELSE "FAILED"
        /\ \A r \in Requests : pc'[r] = pc[r]
    BY <1>1, <1>3 DEF MonitorEnds, Schedule
  <2>2. Leases' = Leases
    BY <2>1, SameLeases
  <2>3. owner = p /\ ~IsRunning
    BY <1>1, <2>1 DEF LockCoversLifecycle, IsRunning, HoldingLabels
  <2>4. state # "STARTING"
    BY <1>1, <2>3 DEF LockCoversLifecycle
  <2>5. CASE state = "RUNNING"
    <3>1. Live = {} /\ registered
      BY <2>3, <2>5, LiveIsRunning, StillListed
    <3>2. Lifecycle!Fail
      BY <2>1, <2>2, <2>5, <3>1 DEF Lifecycle!Fail, Live
    <3> QED
      BY <3>1, <3>2 DEF Simulates, Lifecycle!Next
  <2>6. CASE state # "RUNNING"
    BY <2>1, <2>2, <2>4, <2>6, Stutters DEF States
  <2> QED
    BY <2>5, <2>6
<1>4. CASE Exit(p)
  <2>1. os[p] = "alive" /\ os' = [os EXCEPT ![p] = "dead"] /\ UNCHANGED <<state, registered, pc>>
    BY <1>4 DEF Exit
  <2>2. Live = {p}
    BY <2>1 DEF NoOrphan, Live
  <2>3. Live' = {} /\ Leases' = Leases /\ registered
    BY <2>1, <2>2, StillListed DEF Live, Leases
  <2>4. Lifecycle!Die
    BY <2>1, <2>2, <2>3 DEF Lifecycle!Die, Live
  <2> QED
    BY <2>3, <2>4 DEF Simulates, Lifecycle!Next
<1> QED
  BY <1>2, <1>3, <1>4 DEF MonitorStep

(* A runtime that is down or running begins to drain. *)
LEMMA Drains ==
    ASSUME RefinementInv, state \notin {"STARTING", "DRAINING"}, state' = "DRAINING",
           UNCHANGED <<os, registered>>, Leases' = Leases
    PROVE  Simulates
<1>1. state \in {"STOPPED", "FAILED", "RUNNING"} /\ registered
  BY StillListed DEF RefinementInv, ProcessInv, TypeOK, States
<1>2. Lifecycle!Drain
  BY <1>1 DEF Lifecycle!Drain
<1> QED
  BY <1>1, <1>2 DEF Simulates, Lifecycle!Next

LEMMA CheckerSimulates ==
    ASSUME RefinementInv, Orderly, CheckerStep \/ TimePasses
    PROVE  Simulates
<1> USE DEF RefinementInv, ProcessInv, TypeOK, PcOK
<1>1. Checker \in Tasks \ Procs /\ Checker \notin Requests /\ Requests \subseteq Tasks
  BY TasksAssumption DEF Tasks
<1>2. CASE AwaitSweep \/ SweepSkips \/ TimePasses
  <2>1. /\ UNCHANGED <<state, os, registered>>
        /\ \A r \in Requests : pc'[r] = pc[r]
    BY <1>1, <1>2 DEF AwaitSweep, SweepSkips, TimePasses, Wait, Goto
  <2> QED
    BY <2>1, SameLeases, Stutters
<1>3. CASE SweepDrains
  <2>1. state = "RUNNING" /\ state' = "DRAINING"
    BY <1>3 DEF SweepDrains, StillIdle
  <2>2. /\ UNCHANGED <<os, registered>>
        /\ \A r \in Requests : pc'[r] = pc[r]
    <3>1. CASE EnterTerminate(Checker, "STOPPED")
      BY <1>1, <3>1, EnterTerminateTasks
    <3>2. CASE Goto(Checker, "qStop") /\ UNCHANGED <<worldVars, gatewayVars>>
      BY <1>1, <3>2 DEF Goto
    <3> QED
      BY <1>3, <3>1, <3>2 DEF SweepDrains
  <2> QED
    BY <2>1, <2>2, SameLeases, Drains
<1>4. CASE SweepStops
  BY <1>4 DEF SweepStops, StopInv
<1> QED
  BY <1>1, <1>2, <1>3, <1>4, TerminatingSimulates DEF CheckerStep

LEMMA GatewaySimulates ==
    ASSUME RefinementInv, Orderly, ReloadStep \/ Reconfigure \/ MainStep \/ BeginShutdown
    PROVE  Simulates
<1> USE DEF RefinementInv, ProcessInv, TypeOK, PcOK
<1>1. /\ {Reload, Main} \subseteq Tasks \ Procs
      /\ Requests \cap (Supervisors \cup {Checker, Reload, Main}) = {}
      /\ Requests \subseteq Tasks
  BY TasksAssumption DEF Tasks
<1>2. ASSUME NEW t \in {Reload, Main}, Draining(t) PROVE Simulates
  <2>1. CASE AwaitMark(t) \/ AwaitDrained(t)
    <3>1. /\ UNCHANGED <<state, os, registered>>
          /\ \A r \in Requests : pc'[r] = pc[r]
      BY <1>1, <2>1 DEF AwaitMark, AwaitDrained, Wait, Goto
    <3> QED
      BY <3>1, SameLeases, Stutters
  <2>2. CASE MarkDraining(t)
    <3>1. /\ state' = "DRAINING" /\ UNCHANGED <<os, registered>>
          /\ \A r \in Requests : pc'[r] = pc[r]
      BY <1>1, <2>2 DEF MarkDraining, Goto
    <3>2. Leases' = Leases
      BY <3>1, SameLeases
    <3>3. owner \in {None, t} /\ pc[t] \notin HoldingLabels
      BY <2>2 DEF MarkDraining, DrainBegin, Entering, HoldingLabels, StartLabels, TeardownLabels
    <3>4. state # "STARTING"
      BY <1>1, <3>3, EnterAlone
    <3> QED
      BY <3>1, <3>2, <3>4, Drains, Stutters
  <2>3. CASE Drained(t)
    <3>1. state' = state /\ \E target : EnterTerminate(t, target)
      BY <2>3 DEF Drained
    <3>2. Leases' = Leases /\ UNCHANGED <<os, registered>>
      BY <1>1, <3>1, EnterTerminateTasks DEF Leases
    <3> QED
      BY <3>1, <3>2, Stutters
  <2> QED
    BY <1>2, <2>1, <2>2, <2>3 DEF Draining
<1>3. CASE Publish
  <2>1. /\ UNCHANGED <<state, os>> /\ registered' = FALSE
        /\ \A r \in Requests : pc'[r] = pc[r]
    BY <1>1, <1>3 DEF Publish, Goto
  <2>2. Leases' = Leases
    BY <2>1, SameLeases
  <2>3. state = "DRAINING" /\ Live = {} /\ Leases = {}
    BY <1>3 DEF Publish, StopInv, Retiring, Retires, Emptied, Live
  <2>4. Lifecycle!Delist
    BY <2>1, <2>2, <2>3 DEF Lifecycle!Delist, Live
  <2>5. CASE registered
    BY <2>4, <2>5 DEF Simulates, Lifecycle!Next
  <2>6. CASE ~registered
    BY <2>1, <2>2, <2>6, Stutters
  <2> QED
    BY <2>5, <2>6
<1>4. CASE Reconfigure \/ BeginShutdown \/ StopWatcher \/ NothingToClean
  <2>1. /\ UNCHANGED <<state, os, registered>>
        /\ \A r \in Requests : pc'[r] = pc[r]
    BY <1>1, <1>4 DEF Reconfigure, Schedule, BeginShutdown, StopWatcher, NothingToClean, Goto
  <2> QED
    BY <2>1, SameLeases, Stutters
<1> QED
  BY <1>1, <1>2, <1>3, <1>4, TerminatingSimulates DEF ReloadStep, MainStep

(* Every behaviour of a runtime, whatever its requests, restart loops,     *)
(* monitors, sweeps, reloads and shutdown interleave, is one that the      *)
(* lifecycle promises, as long as no teardown is cut short and the event   *)
(* loop does not stall for an idle timeout.                                *)
THEOREM RuntimeImplementsLifecycle == ASSUME Orderly PROVE Spec => ImplementsLifecycle
<1>1. Init => RefinementInv
  BY InitRefinement
<1>2. RefinementInv /\ [Next]_vars => RefinementInv'
  BY NextRefinement
<1>3. Init => Lifecycle!Init
  <2> SUFFICES ASSUME Init PROVE Lifecycle!Init
    OBVIOUS
  <2>1. \A r \in Requests : pc[r] = "idle"
    BY TasksAssumption DEF Init, Tasks
  <2> QED
    BY <2>1 DEF Init, Leases, Lifecycle!Init
<1>4. RefinementInv /\ [Next]_vars => [Lifecycle!Next]_(Lifecycle!lifecycle)
  <2> SUFFICES ASSUME RefinementInv, [Next]_vars PROVE Simulates
    BY DEF Simulates
  <2>1. CASE Running
    BY <2>1, RequestSimulates, SupervisorSimulates, MonitorSimulates, CheckerSimulates,
       GatewaySimulates DEF Running
  <2>2. CASE UNCHANGED vars
    BY <2>2, Stutters DEF vars, Leases
  <2> QED
    BY <2>1, <2>2 DEF Next
<1> QED
  BY <1>1, <1>2, <1>3, <1>4, PTL DEF Spec, ImplementsLifecycle, Lifecycle!Spec

(***************************************************************************)
(* The monitor of the process                                              *)
(***************************************************************************)

(* p watches its process and has not begun to report. *)
Watches(p) == p # None /\ pc[p] \in {"mWait", "qMonitor"}

Reports(p) == p \in Procs /\ pc[p] = "mLogs"

(* A process has its monitor from its spawn on; while RUNNING it has it,   *)
(* or is just being reported.                                              *)
WatchInv ==
    /\ state = "RUNNING" => Watches(process) \/ (process = None /\ Reports(owner))
    /\ \A t \in Tasks : pc[t] \in {"port", "probe"} => Watches(process)

(* A step that neither starts nor stops the process. *)
LEMMA WatchFrame ==
    ASSUME WatchInv,
           UNCHANGED <<state, process>>,
           \A t \in Tasks : pc'[t] = pc[t] \/ pc'[t] \notin StartLabels,
           Watches(process) => Watches(process)',
           Reports(owner) => Reports(owner)'
    PROVE  WatchInv'
BY DEF WatchInv, Watches, StartLabels

(* A step after which nobody is inside a start. *)
LEMMA WatchDown ==
    ASSUME state' # "RUNNING", \A t \in Tasks : pc'[t] \notin StartLabels
    PROVE  WatchInv'
BY DEF WatchInv, StartLabels

(* A termination is entered. *)
LEMMA EnterTerminateWatch ==
    ASSUME TypeOK, NEW t \in Tasks \ Procs, NEW target,
           EnterTerminate(t, target), state' # "RUNNING",
           \A u \in Tasks \ {t} : pc[u] \notin HoldingLabels
    PROVE  WatchInv'
<1>1. pc'[t] = "tTasks" /\ \A u \in Tasks \ {t} : pc'[u] \in {pc[u], "done"}
  BY EnterTerminateTasks
<1> QED
  BY <1>1, WatchDown DEF HoldingLabels, StartLabels

LEMMA BeginStartWatch ==
    ASSUME ProcessInv, NEW t \in Requests \cup Supervisors, owner \in {None, t},
           pc[t] \notin HoldingLabels, BeginStart(t)
    PROVE  WatchInv'
<1> USE DEF ProcessInv, TypeOK, PcOK
<1>1. t \in Tasks
  BY DEF Tasks
<1>2. \A u \in Tasks : pc[u] \notin HoldingLabels
  BY <1>1, EnterAlone
<1>3. state' = "STARTING" /\ \A u \in Tasks : pc'[u] \in {pc[u], "spawn", "done"}
  BY DEF BeginStart
<1> QED
  BY <1>2, <1>3 DEF WatchInv, HoldingLabels, StartLabels

LEMMA StartingWatch ==
    ASSUME ProcessInv, WatchInv, NEW t \in Requests \cup Supervisors, Starting(t)
    PROVE  WatchInv'
<1> USE DEF ProcessInv, TypeOK, PcOK
<1>1. /\ t \in Tasks \ Procs /\ Procs \cup Requests \subseteq Tasks /\ None \notin Tasks
      /\ Requests \cap Procs = {} /\ Supervisors \cap Procs = {}
  BY TasksAssumption DEF Tasks
<1>2. pc[t] \in StartLabels
  BY DEF Starting, Spawn, PortOpen, Ready, StartFails, StartLabels
<1>3. state = "STARTING" /\ \A u \in Tasks \ {t} : pc[u] \notin HoldingLabels
  BY <1>1, <1>2, InsideAlone DEF LockCoversLifecycle, HoldingLabels
<1>4. CASE Spawn(t)
  <2>1. PICK p \in Procs :
          process' = p /\ pc' = [pc EXCEPT ![t] = "port", ![p] = "mWait"]
    BY <1>4 DEF Spawn
  <2>2. /\ p # None /\ p # t /\ p \in Tasks
        /\ pc'[t] = "port" /\ pc'[p] = "mWait"
        /\ \A u \in Tasks \ {t, p} : pc'[u] = pc[u]
    BY <1>1, <2>1
  <2>3. state' = "STARTING"
    BY <1>3, <1>4 DEF Spawn
  <2> QED
    BY <2>1, <2>2, <2>3 DEF WatchInv, Watches
<1>5. CASE PortOpen(t)
  <2>1. /\ pc[t] = "port" /\ pc'[t] = "probe" /\ \A u \in Tasks \ {t} : pc'[u] = pc[u]
        /\ UNCHANGED <<state, process>>
    BY <1>1, <1>5 DEF PortOpen, Goto
  <2>2. process \in Procs /\ Watches(process)
    BY <1>1, <2>1 DEF WatchInv, Watches
  <2>3. Watches(process)'
    BY <1>1, <2>1, <2>2 DEF Watches
  <2> QED
    BY <1>3, <2>1, <2>3 DEF WatchInv
<1>6. CASE Ready(t)
  <2>1. pc[t] = "probe" /\ process' = process
    BY <1>6 DEF Ready
  <2>2. pc'[t] \in {"leased", "done"} /\ \A u \in Tasks \ {t} : pc'[u] = pc[u]
    BY <1>1, <1>6 DEF Ready, GrantLease, Goto
  <2>3. process \in Procs /\ Watches(process)
    BY <1>1, <2>1 DEF WatchInv, Watches
  <2>4. Watches(process)'
    BY <1>1, <2>1, <2>2, <2>3 DEF Watches
  <2>5. \A u \in Tasks : pc'[u] \notin StartLabels
    BY <1>3, <2>2 DEF HoldingLabels, StartLabels
  <2> QED
    BY <2>1, <2>4, <2>5 DEF WatchInv, StartLabels
<1>7. CASE StartFails(t)
  BY <1>1, <1>3, <1>7, EnterTerminateWatch DEF StartFails
<1> QED
  BY <1>4, <1>5, <1>6, <1>7 DEF Starting

LEMMA TerminatingWatch ==
    ASSUME RefinementInv, WatchInv, NEW t \in Tasks \ Procs, Terminating(t)
    PROVE  WatchInv'
<1> USE DEF RefinementInv, ProcessInv, TypeOK, PcOK
<1>1. /\ t \in Requests \cup Supervisors \cup {Checker, Reload, Main}
      /\ Requests \subseteq Tasks /\ Procs \subseteq Tasks /\ None \notin Tasks
  BY TasksAssumption DEF Tasks
<1>2. pc[t] \in TeardownLabels
  BY DEF Terminating, Signal, Kill, Reaped, SignalError, Terminated, TeardownLabels
<1>3. state # "RUNNING" /\ \A u \in Tasks \ {t} : pc[u] \notin HoldingLabels
  BY <1>1, <1>2, InsideAlone DEF StopInv, Retiring, Retires, HoldingLabels
<1>4. CASE Signal(t) \/ Kill(t) \/ Reaped(t) \/ SignalError(t)
  <2>1. /\ state' = state /\ \A u \in Tasks \ {t} : pc'[u] = pc[u]
        /\ pc'[t] \in {"tTerm", "tKill", "tLogs"}
    BY <1>4 DEF Signal, Kill, Reaped, SignalError, Goto
  <2> QED
    BY <1>3, <2>1, WatchDown DEF HoldingLabels, StartLabels
<1>5. CASE Terminated(t)
  <2>1. state' # "RUNNING"
    BY <1>5 DEF Terminated
  <2>2. AfterTerminate(t) \in {"idle", "top", "cSleep", "publish", "down"}
    BY <1>1, TasksAssumption DEF AfterTerminate
  <2>3. \A u \in Tasks : pc'[u] \in {IF u = t THEN AfterTerminate(t) ELSE pc[u], "top"}
    BY <1>5 DEF Terminated, Schedule
  <2> QED
    BY <1>3, <2>1, <2>2, <2>3, WatchDown DEF HoldingLabels, StartLabels
<1> QED
  BY <1>4, <1>5 DEF Terminating

(* One task moves, without starting or stopping the process. *)
LEMMA QuietWatch ==
    ASSUME TypeOK, WatchInv, NEW t \in Tasks \ Procs,
           \A u \in Tasks \ {t} : pc'[u] = pc[u],
           pc'[t] \notin StartLabels,
           UNCHANGED <<state, process>>,
           owner' = owner \/ owner \in {None, t}
    PROVE  WatchInv'
<1>1. Procs \subseteq Tasks /\ None \notin Tasks
  BY TasksAssumption DEF Tasks
<1>2. Watches(process) => Watches(process)'
  BY <1>1 DEF Watches, TypeOK
<1>3. Reports(owner) => Reports(owner)'
  BY <1>1 DEF Reports
<1> QED
  BY <1>2, <1>3, WatchFrame

LEMMA RequestWatch ==
    ASSUME RefinementInv, TeardownsEnd, WatchInv, NEW r \in Requests,
           \/ RequestStep(r) \/ Capture(r) \/ Finish(r)
           \/ CancelWaiting(r) \/ CancelStart(r) \/ CancelTeardown(r)
    PROVE  WatchInv'
<1> USE DEF RefinementInv, ProcessInv, TypeOK, PcOK
<1>1. r \in Tasks \ Procs /\ Procs \subseteq Tasks /\ None \notin Tasks
  BY TasksAssumption DEF Tasks
<1>2. CASE \/ Capture(r) \/ Reject(r) \/ AwaitStart(r) \/ StartRefused(r) \/ Finish(r)
           \/ CancelWaiting(r)
  <2>1. /\ UNCHANGED <<state, process>>
        /\ \A u \in Tasks \ {r} : pc'[u] = pc[u]
        /\ pc'[r] \in {"captured", "idle", "qStart"}
        /\ owner' = owner \/ owner \in {None, r}
    BY <1>1, <1>2 DEF Capture, Reject, AwaitStart, StartRefused, EnterStart, Entering, Finish,
       CancelWaiting, Unlock, Wait, Goto
  <2> QED
    BY <1>1, <2>1, QuietWatch DEF StartLabels, TeardownLabels
<1>3. CASE AcquireLease(r) \/ StartFound(r)
  <2>1. /\ UNCHANGED <<state, process>>
        /\ \A u \in Tasks \ {r} : pc'[u] = pc[u]
        /\ pc'[r] = "leased"
        /\ owner' = owner \/ owner \in {None, r}
    BY <1>1, <1>3 DEF AcquireLease, StartFound, EnterStart, Entering, GrantLease, Goto
  <2> QED
    BY <1>1, <2>1, QuietWatch DEF StartLabels
<1>4. CASE StartOnDemand(r)
  BY <1>1, <1>4, EnteringOutside, BeginStartWatch
     DEF StartOnDemand, EnterStart, HoldingLabels, StartLabels, TeardownLabels
<1>5. CASE CancelStart(r)
  <2>1. /\ pc[r] \in StartLabels /\ state = "STARTING"
        /\ \A u \in Tasks \ {r} : pc[u] \notin HoldingLabels
    BY <1>1, <1>5, InsideAlone DEF CancelStart, LockCoversLifecycle, HoldingLabels
  <2> QED
    BY <1>1, <1>5, <2>1, EnterTerminateWatch DEF CancelStart
<1>6. CASE CancelTeardown(r)
  BY <1>6 DEF CancelTeardown, TeardownsEnd
<1> QED
  BY <1>1, <1>2, <1>3, <1>4, <1>5, <1>6, StartingWatch, TerminatingWatch DEF RequestStep

LEMMA SupervisorWatch ==
    ASSUME RefinementInv, WatchInv, NEW s \in Supervisors, SupervisorStep(s)
    PROVE  WatchInv'
<1> USE DEF RefinementInv, ProcessInv, TypeOK, PcOK
<1>1. s \in Tasks \ Procs
  BY TasksAssumption DEF Tasks
<1>2. CASE AwaitTop(s) \/ AwaitRestart(s) \/ Reserve(s) \/ GiveUp(s)
  <2>1. /\ UNCHANGED <<state, process>>
        /\ \A u \in Tasks \ {s} : pc'[u] = pc[u]
        /\ pc'[s] \in {"qTop", "qAgain", "sleep", "done"}
        /\ owner' = owner \/ owner \in {None, s}
    BY <1>1, <1>2 DEF AwaitTop, AwaitRestart, Reserve, GiveUp, Entering, Wait, Goto
  <2> QED
    BY <1>1, <2>1, QuietWatch DEF StartLabels, TeardownLabels
<1>3. CASE Restart(s)
  BY <1>1, <1>3, EnteringOutside, BeginStartWatch
     DEF Restart, HoldingLabels, StartLabels, TeardownLabels
<1> QED
  BY <1>1, <1>2, <1>3, StartingWatch, TerminatingWatch DEF SupervisorStep

LEMMA MonitorWatch ==
    ASSUME RefinementInv, WatchInv, NEW p \in Procs, MonitorStep(p) \/ Exit(p)
    PROVE  WatchInv'
<1> USE DEF RefinementInv, ProcessInv, TypeOK, PcOK
<1>1. /\ p \in Tasks /\ p \notin Requests /\ Requests \subseteq Tasks /\ Procs \subseteq Tasks
      /\ None \notin Tasks
  BY TasksAssumption DEF Tasks
<1>2. CASE AwaitMonitor(p) \/ MonitorStale(p) \/ Exit(p)
  <2>1. /\ UNCHANGED <<state, process>>
        /\ \A u \in Tasks \ {p} : pc'[u] = pc[u]
        /\ \/ pc'[p] = pc[p] /\ owner' = owner
           \/ pc'[p] = "qMonitor" /\ pc[p] = "mWait" /\ owner' = owner
           \/ pc'[p] = "done" /\ process # p /\ pc[p] # "mLogs" /\ owner \in {None, p}
    BY <1>1, <1>2 DEF AwaitMonitor, MonitorStale, EnterMonitor, Entering, Exit, Wait, Goto
  <2>2. Watches(process) => Watches(process)'
    BY <1>1, <2>1 DEF Watches
  <2>3. Reports(owner) => Reports(owner)'
    BY <1>1, <2>1 DEF Reports
  <2>4. \A t \in Tasks : pc'[t] = pc[t] \/ pc'[t] \notin StartLabels
    BY <2>1 DEF StartLabels
  <2> QED
    BY <2>1, <2>2, <2>3, <2>4, WatchFrame
<1>3. CASE MonitorClears(p)
  <2>1. /\ pc[p] \in {"mWait", "qMonitor"} /\ owner \in {None, p}
        /\ process' = None /\ owner' = p /\ pc'[p] = "mLogs"
        /\ \A u \in Tasks \ {p} : pc'[u] = pc[u]
    BY <1>1, <1>3 DEF MonitorClears, EnterMonitor, Entering, Goto, Hold
  <2>2. \A u \in Tasks : pc[u] \notin HoldingLabels
    BY <1>1, <2>1, EnterAlone DEF HoldingLabels, StartLabels, TeardownLabels
  <2>3. \A u \in Tasks : pc'[u] \notin StartLabels
    BY <2>1, <2>2 DEF HoldingLabels, StartLabels
  <2>4. Reports(owner)'
    BY <2>1 DEF Reports
  <2> QED
    BY <2>1, <2>3, <2>4 DEF WatchInv, StartLabels
<1>4. CASE MonitorEnds(p)
  <2>1. \A u \in Tasks \ {p} : pc[u] \notin HoldingLabels
    BY <1>1, <1>4, InsideAlone DEF MonitorEnds, HoldingLabels
  <2>2. \A u \in Tasks : pc'[u] \in {IF u = p THEN "done" ELSE pc[u], "top"}
    BY <1>1, <1>4 DEF MonitorEnds, Schedule
  <2>3. state' # "RUNNING"
    BY <1>4 DEF MonitorEnds
  <2> QED
    BY <2>1, <2>2, <2>3, WatchDown DEF HoldingLabels, StartLabels, TeardownLabels
<1> QED
  BY <1>2, <1>3, <1>4 DEF MonitorStep

LEMMA CheckerWatch ==
    ASSUME RefinementInv, WatchInv, CheckerStep \/ TimePasses
    PROVE  WatchInv'
<1> USE DEF RefinementInv, ProcessInv, TypeOK, PcOK
<1>1. Checker \in Tasks \ Procs
  BY TasksAssumption DEF Tasks
<1>2. CASE AwaitSweep \/ SweepSkips
  <2>1. /\ UNCHANGED <<state, process>>
        /\ \A u \in Tasks \ {Checker} : pc'[u] = pc[u]
        /\ pc'[Checker] \in {"qSweep", "cSleep"}
        /\ owner' = owner \/ owner \in {None, Checker}
    BY <1>1, <1>2 DEF AwaitSweep, SweepSkips, EnterSweep, Entering, Wait, Goto
  <2> QED
    BY <1>1, <2>1, QuietWatch DEF StartLabels, TeardownLabels
<1>3. CASE TimePasses
  BY <1>3 DEF TimePasses, WatchInv, Watches, Reports
<1>4. CASE SweepDrains
  <2>1. owner \in {None, Checker} /\ pc[Checker] \in {"cSleep", "qSweep"}
    BY <1>4 DEF SweepDrains, EnterSweep, Entering
  <2>2. waiters = <<>> /\ state' = "DRAINING"
    BY <1>1, <1>4, <2>1, TasksAssumption
       DEF SweepDrains, StillIdle, QueueInv, HoldingLabels, StartLabels, TeardownLabels
  <2>3. \A u \in Tasks : pc[u] \notin HoldingLabels
    BY <1>1, <2>1, EnterAlone DEF HoldingLabels, StartLabels, TeardownLabels
  <2>4. EnterTerminate(Checker, "STOPPED")
    BY <1>4, <2>2 DEF SweepDrains
  <2> QED
    BY <1>1, <2>2, <2>3, <2>4, EnterTerminateWatch
<1>5. CASE SweepStops
  BY <1>5 DEF SweepStops, StopInv
<1> QED
  BY <1>1, <1>2, <1>3, <1>4, <1>5, TerminatingWatch DEF CheckerStep

LEMMA GatewayWatch ==
    ASSUME RefinementInv, WatchInv, ReloadStep \/ Reconfigure \/ MainStep \/ BeginShutdown
    PROVE  WatchInv'
<1> USE DEF RefinementInv, ProcessInv, TypeOK, PcOK
<1>1. /\ {Checker, Reload, Main} \subseteq Tasks \ Procs
      /\ Procs \cup Supervisors \subseteq Tasks /\ None \notin Tasks
      /\ Supervisors \cap Procs = {}
  BY TasksAssumption DEF Tasks
<1>2. ASSUME NEW t \in {Reload, Main}, Draining(t) PROVE WatchInv'
  <2>1. DrainBegin(t) \in {"watch", "stopped"}
    BY DEF DrainBegin
  <2>2. CASE AwaitMark(t) \/ AwaitDrained(t)
    <3>1. /\ UNCHANGED <<state, process, owner>>
          /\ \A u \in Tasks \ {t} : pc'[u] = pc[u]
          /\ pc'[t] \in {"qMark", "qDrain"}
      BY <1>1, <2>2 DEF AwaitMark, AwaitDrained, Wait, Goto
    <3> QED
      BY <1>1, <3>1, QuietWatch DEF StartLabels, TeardownLabels
  <2>3. CASE MarkDraining(t)
    <3>1. /\ owner \in {None, t} /\ pc[t] \in {"watch", "stopped", "qMark"}
          /\ state' = "DRAINING" /\ pc'[t] = "dWait"
          /\ \A u \in Tasks \ {t} : pc'[u] = pc[u]
      BY <1>1, <2>1, <2>3 DEF MarkDraining, Entering, Goto
    <3>2. \A u \in Tasks : pc[u] \notin HoldingLabels
      BY <1>1, <3>1, EnterAlone DEF HoldingLabels, StartLabels, TeardownLabels
    <3>3. \A u \in Tasks : pc'[u] \notin StartLabels
      BY <3>1, <3>2 DEF HoldingLabels, StartLabels
    <3> QED
      BY <3>1, <3>3, WatchDown
  <2>4. CASE Drained(t)
    <3>1. /\ owner \in {None, t} /\ pc[t] \in {"dWait", "qDrain"}
          /\ EnterTerminate(t, IF t = Reload THEN "DRAINING" ELSE "STOPPED") /\ state' = state
      BY <2>4 DEF Drained, Entering
    <3>2. state = "DRAINING"
      BY <3>1 DEF StopInv, Retiring, Retires
    <3>3. \A u \in Tasks : pc[u] \notin HoldingLabels
      BY <1>1, <3>1, EnterAlone DEF HoldingLabels, StartLabels, TeardownLabels
    <3> QED
      BY <1>1, <3>1, <3>2, <3>3, EnterTerminateWatch
  <2> QED
    BY <1>2, <2>2, <2>3, <2>4 DEF Draining
<1>3. CASE Publish
  BY <1>1, <1>3, QuietWatch DEF Publish, Goto, StartLabels, TeardownLabels
<1>4. CASE NothingToClean
  BY <1>1, <1>4, QuietWatch DEF NothingToClean, Goto, StartLabels, TeardownLabels
<1>5. CASE Reconfigure \/ BeginShutdown \/ StopWatcher
  <2>1. /\ UNCHANGED <<state, process>>
        /\ \A u \in Procs : pc'[u] = pc[u]
        /\ \A u \in Tasks : pc'[u] \in {pc[u], "top", "joined", "stopped", "done"}
    BY <1>1, <1>5 DEF Reconfigure, Schedule, BeginShutdown, StopWatcher
  <2>2. owner' = owner \/ owner \notin Procs
    BY <1>1, <1>5 DEF Reconfigure, BeginShutdown, StopWatcher, Unlock
  <2>3. Watches(process) => Watches(process)'
    BY <1>1, <2>1 DEF Watches
  <2>4. Reports(owner) => Reports(owner)'
    BY <1>1, <2>1, <2>2 DEF Reports
  <2>5. \A u \in Tasks : pc'[u] = pc[u] \/ pc'[u] \notin StartLabels
    BY <2>1 DEF StartLabels
  <2> QED
    BY <2>1, <2>3, <2>4, <2>5, WatchFrame
<1> QED
  BY <1>1, <1>2, <1>3, <1>4, <1>5, TerminatingWatch DEF ReloadStep, MainStep

LEMMA NextWatch == RefinementInv /\ WatchInv /\ Orderly /\ [Next]_vars => WatchInv'
<1> SUFFICES ASSUME RefinementInv, WatchInv, Orderly, [Next]_vars PROVE WatchInv'
  OBVIOUS
<1>1. CASE Running
  BY <1>1, RequestWatch, SupervisorWatch, MonitorWatch, CheckerWatch, GatewayWatch
     DEF Running, Orderly
<1>2. CASE UNCHANGED vars
  BY <1>2 DEF vars, WatchInv, Watches, Reports
<1> QED
  BY <1>1, <1>2 DEF Next

LEMMA InitWatch == Init => WatchInv
<1> SUFFICES ASSUME Init PROVE WatchInv
  OBVIOUS
<1>1. \A t \in Tasks : pc[t] \notin StartLabels
  BY TasksAssumption DEF Init, Tasks, StartLabels
<1> QED
  BY <1>1 DEF Init, WatchInv, StartLabels

LEMMA WatchEver == ASSUME Orderly PROVE Spec => [](RefinementInv /\ WatchInv)
<1>1. Init => RefinementInv /\ WatchInv
  BY InitRefinement, InitWatch
<1>2. RefinementInv /\ WatchInv /\ [Next]_vars => RefinementInv' /\ WatchInv'
  BY NextRefinement, NextWatch
<1> QED
  BY <1>1, <1>2, PTL DEF Spec

(* A process that dies while the runtime is RUNNING is always noticed: its *)
(* monitor, begun with it, ends only by reporting it or when the runtime   *)
(* is stopped.                                                             *)
THEOREM DeathsNoticed == ASSUME Orderly PROVE Spec => []DeathIsNoticed
<1>1. RefinementInv /\ WatchInv => DeathIsNoticed
  BY DEF RefinementInv, ProcessInv, TypeOK, WatchInv, Watches, Reports, DeathIsNoticed
<1> QED
  BY <1>1, WatchEver, PTL

(***************************************************************************)
(* The leases on a process that is stopped                                 *)
(*                                                                         *)
(* The argument of RefinementInv stops where a teardown is cancelled, or   *)
(* where the loop stalls between the two critical sections of an idle      *)
(* stop.  Leases need less: they are safe from a process that ends, in     *)
(* every environment in which the runtime does not have two stops at once. *)
(***************************************************************************)

(* An idle stop waits for the lock again only if the loop has stalled; it  *)
(* cannot meet a retirement by reload then.                                *)
Prompt == "stall" \notin Environment \/ "retire" \notin Environment

(* No lease was given on the process. *)
Clear == process = None \/ \A r \in Leases : servedBy[r] # process

(* t may yet signal the process, which it started or stops. *)
Handles(t) ==
    \/ pc[t] \in {"port", "probe", "tTerm", "tKill"}
    \/ pc[t] = "tTasks" /\ IsRunning

(* A process that is started or stopped has no lease on it, nor has one    *)
(* that a cancelled teardown left alive.                                   *)
ClearInv ==
    /\ \A t \in Tasks : Handles(t) => Clear
    /\ state \notin {"RUNNING", "DRAINING"} /\ IsRunning => Clear

Enders == {Checker, Reload, Main}

(* t stops the runtime, or has only to get the lock to do so. *)
Stopping(t) == pc[t] \in {"qStop", "qDrain"} \cup TeardownLabels

(* t has taken the runtime to DRAINING and has not stopped it yet. *)
Closing(t) == Stopping(t) \/ pc[t] = "dWait"

(* Whoever stops the runtime has seen the last lease returned, keeps it    *)
(* DRAINING, and an idle stop never meets a retirement that might end      *)
(* DRAINING before it.                                                     *)
EndsInv ==
    /\ \A t \in Enders : Stopping(t) => Leases = {}
    /\ \A t \in Enders : Closing(t) => state = "DRAINING"
    /\ Stopping(Checker) => ~Closing(Reload)
    /\ pc[Main] # "up" => pc[Checker] = "done"
    /\ pc[Main] \notin {"up", "joined"} => pc[Reload] = "done"
    /\ "stall" \notin Environment => pc[Checker] # "qStop"
    /\ "retire" \notin Environment => pc[Reload] \in {"watch", "done"}

(* Without a stall, an idle stop never has to wait for the lock again. *)
TurnInv == "stall" \notin Environment => QueueInv

LeaseInv == LockInv /\ ClearInv /\ EndsInv /\ TurnInv

LEMMA EndersAreTasks ==
    /\ Enders \subseteq Tasks \ Procs
    /\ Enders \cap (Requests \cup Supervisors \cup Procs) = {}
    /\ Checker # Reload /\ Checker # Main /\ Reload # Main
    /\ Requests \cup Supervisors \cup Procs \subseteq Tasks /\ None \notin Tasks
    /\ Requests \cap Procs = {} /\ Requests \cap Supervisors = {}
    /\ Supervisors \cap Procs = {}
BY TasksAssumption DEF Enders, Tasks

(* No process is gained, no lease either. *)
LEMMA ClearFrame ==
    ASSUME process' = process,
           \A r \in Leases' : r \in Leases /\ servedBy'[r] = servedBy[r],
           \A t \in Tasks : Handles(t)' => Clear,
           state' \notin {"RUNNING", "DRAINING"} /\ IsRunning' => Clear
    PROVE  ClearInv'
BY DEF ClearInv, Clear

LEMMA ClearAfter == ASSUME Clear' PROVE ClearInv'
BY DEF ClearInv

(* The enders stay where they are. *)
LEMMA EndsFrame ==
    ASSUME EndsInv, \A t \in Enders : pc'[t] = pc[t],
           state = "DRAINING" => state' = "DRAINING" /\ Leases' \subseteq Leases
    PROVE  EndsInv'
BY DEF EndsInv, Enders, Stopping, Closing

(* One task moves, without starting, stopping or leasing the process. *)
LEMMA QuietLease ==
    ASSUME TypeOK, ClearInv, NEW t \in Tasks,
           \A u \in Tasks \ {t} : pc'[u] = pc[u],
           pc'[t] \notin StartLabels \cup TeardownLabels \cup {"leased"},
           UNCHANGED <<process, os>>, state' \in {state, "DRAINING"},
           \A r \in Requests \ {t} : servedBy'[r] = servedBy[r]
    PROVE  ClearInv' /\ Leases' \subseteq Leases
<1>1. IsRunning' = IsRunning
  BY DEF IsRunning
<1>2. \A r \in Leases' : r \in Leases /\ servedBy'[r] = servedBy[r]
  BY EndersAreTasks DEF Leases
<1>3. \A u \in Tasks : Handles(u)' => Handles(u)
  BY <1>1 DEF Handles, StartLabels, TeardownLabels
<1>4. ClearInv'
  BY <1>1, <1>2, <1>3, ClearFrame DEF ClearInv
<1> QED
  BY <1>2, <1>4

(* A running runtime is neither started nor stopped by anyone. *)
LEMMA RunningAlone ==
    ASSUME TypeOK, LockInv, EndsInv, state = "RUNNING"
    PROVE  \A t \in Tasks : pc[t] \notin StartLabels \cup TeardownLabels
<1>1. \A t \in Tasks : pc[t] \notin StartLabels
  BY DEF LockInv
<1>2. \A t \in Requests \cup Supervisors \cup Enders : pc[t] \notin TeardownLabels
  BY DEF LockInv, EndsInv, Stopping, Closing
<1>3. \A t \in Procs : pc[t] \notin TeardownLabels
  BY EndersAreTasks, TasksAssumption DEF TypeOK, PcOK, LabelsOf, MonitorLabels, TeardownLabels
<1> QED
  BY <1>1, <1>2, <1>3 DEF Tasks, Enders

(* A termination is entered with no lease on the process. *)
LEMMA EnterTerminateClear ==
    ASSUME TypeOK, NEW t \in Tasks \ Procs, NEW target, EnterTerminate(t, target), Clear
    PROVE  ClearInv'
<1>1. Leases' \subseteq Leases /\ UNCHANGED <<process, servedBy>>
  BY EnterTerminateTasks DEF EnterTerminate
<1> QED
  BY <1>1, ClearAfter DEF Clear

(* A process that survives a start that failed, or precedes a new one, has *)
(* no lease on it.                                                         *)
LEMMA StartClear ==
    ASSUME ClearInv, state \notin {"RUNNING", "DRAINING"}, IsRunning
    PROVE  Clear
BY DEF ClearInv

LEMMA BeginStartLease ==
    ASSUME TypeOK, LockInv, ClearInv, EndsInv, NEW t \in Requests \cup Supervisors,
           BeginStart(t)
    PROVE  ClearInv' /\ EndsInv'
<1> USE DEF TypeOK, PcOK
<1>1. /\ state # "DRAINING"
      /\ IsRunning => state # "RUNNING"
      /\ UNCHANGED <<process, os, servedBy>>
      /\ pc' = [x \in Tasks |-> IF x = t THEN "spawn"
                               ELSE IF x = restartTask THEN "done" ELSE pc[x]]
  BY DEF BeginStart
<1>2. IsRunning' = IsRunning /\ (IsRunning => Clear)
  BY <1>1 DEF IsRunning, ClearInv
<1>3. \A r \in Leases' : r \in Leases /\ servedBy'[r] = servedBy[r]
  BY <1>1, EndersAreTasks DEF Leases
<1>4. \A u \in Tasks : Handles(u)' => Handles(u)
  BY <1>1, <1>2 DEF Handles
<1>5. ClearInv'
  BY <1>1, <1>2, <1>3, <1>4, ClearFrame DEF ClearInv
<1>6. \A u \in Enders : pc'[u] = pc[u]
  BY <1>1, EndersAreTasks
<1> QED
  BY <1>1, <1>5, <1>6, EndsFrame

(* A start that fails or is cancelled becomes its own teardown. *)
LEMMA StartTeardownLease ==
    ASSUME TypeOK, LockInv, ClearInv, EndsInv, NEW t \in Requests \cup Supervisors,
           NEW target, EnterTerminate(t, target), pc[t] \in StartLabels, state' = state
    PROVE  ClearInv' /\ EndsInv'
<1>1. t \in Tasks \ Procs /\ t \notin Enders
  BY EndersAreTasks
<1>2. state = "STARTING"
  BY <1>1 DEF LockInv
<1>3. /\ pc'[t] = "tTasks" /\ Leases' \subseteq Leases /\ UNCHANGED <<process, os, servedBy>>
      /\ \A u \in Tasks \ {t} : pc'[u] \in {pc[u], "done"}
      /\ \A u \in Enders : pc'[u] = pc[u]
  BY <1>1, EnterTerminateTasks DEF EnterTerminate, Enders
<1>4. IsRunning' = IsRunning /\ (IsRunning => Clear)
  BY <1>2, <1>3, StartClear DEF IsRunning
<1>5. \A u \in Tasks : Handles(u)' => Handles(u) \/ IsRunning
  BY <1>3, <1>4 DEF Handles
<1>6. ClearInv'
  BY <1>3, <1>4, <1>5, ClearFrame DEF ClearInv
<1> QED
  BY <1>2, <1>3, <1>6, EndsFrame

LEMMA StartingLease ==
    ASSUME TypeOK, LockInv, ClearInv, EndsInv, NEW t \in Requests \cup Supervisors, Starting(t)
    PROVE  ClearInv' /\ EndsInv'
<1> USE DEF TypeOK, PcOK
<1>1. t \in Tasks \ Procs /\ t \notin Enders
  BY EndersAreTasks
<1>2. pc[t] \in StartLabels
  BY DEF Starting, Spawn, PortOpen, Ready, StartFails, StartLabels
<1>3. state = "STARTING" /\ \A u \in Tasks \ {t} : pc[u] \notin HoldingLabels
  BY <1>1, <1>2, InsideIsAlone DEF LockInv, HoldingLabels
<1>4. CASE Spawn(t)
  <2>1. PICK p \in Procs :
          /\ servedBy' = [r \in Requests |-> IF servedBy[r] = p THEN None ELSE servedBy[r]]
          /\ process' = p
          /\ pc' = [pc EXCEPT ![t] = "port", ![p] = "mWait"]
    BY <1>4 DEF Spawn
  <2>2. Clear'
    BY <2>1, EndersAreTasks DEF Clear, Leases
  <2>3. \A u \in Enders : pc'[u] = pc[u]
    BY <1>1, <2>1, EndersAreTasks
  <2> QED
    BY <1>3, <2>2, <2>3, ClearAfter, EndsFrame
<1>5. CASE PortOpen(t)
  <2>1. /\ pc[t] = "port" /\ \A u \in Tasks \ {t} : pc'[u] = pc[u]
        /\ pc'[t] = "probe" /\ UNCHANGED <<process, servedBy>>
    BY <1>1, <1>5 DEF PortOpen, Goto
  <2>2. Clear
    BY <1>1, <2>1 DEF ClearInv, Handles
  <2>3. Leases' = Leases
    BY <2>1, EndersAreTasks DEF Leases
  <2>4. Clear'
    BY <2>1, <2>2, <2>3 DEF Clear
  <2> QED
    BY <1>1, <1>3, <2>1, <2>4, ClearAfter, EndsFrame, EndersAreTasks
<1>6. CASE Ready(t)
  <2>1. pc'[t] \in {"leased", "done"} /\ \A u \in Tasks \ {t} : pc'[u] = pc[u]
    BY <1>1, <1>6 DEF Ready, GrantLease, Goto
  <2>2. \A u \in Tasks : ~Handles(u)'
    BY <1>3, <2>1 DEF Handles, HoldingLabels, StartLabels, TeardownLabels
  <2>3. state' = "RUNNING"
    BY <1>6 DEF Ready
  <2> QED
    BY <1>1, <1>3, <2>1, <2>2, <2>3, EndsFrame, EndersAreTasks DEF ClearInv
<1>7. CASE StartFails(t)
  BY <1>2, <1>7, StartTeardownLease DEF StartFails
<1> QED
  BY <1>4, <1>5, <1>6, <1>7 DEF Starting

LEMMA TerminatingLease ==
    ASSUME TypeOK, LockInv, ClearInv, EndsInv, NEW t \in Tasks \ Procs, Terminating(t)
    PROVE  ClearInv' /\ EndsInv'
<1> USE DEF TypeOK, PcOK
<1>1. t \in Requests \cup Supervisors \cup Enders /\ t \in Tasks
  BY DEF Tasks, Enders
<1>2. pc[t] \in TeardownLabels
  BY DEF Terminating, Signal, Kill, Reaped, SignalError, Terminated, TeardownLabels
<1>3. \A u \in Tasks \ {t} : pc[u] \notin HoldingLabels
  BY <1>1, <1>2, InsideIsAlone DEF HoldingLabels
<1>4. t \in Requests \cup Supervisors => state = "STARTING" /\ t \notin Enders
  BY <1>2, EndersAreTasks DEF LockInv
<1>5. CASE Signal(t) \/ Kill(t) \/ Reaped(t) \/ SignalError(t)
  <2>1. /\ UNCHANGED <<state, process, servedBy, os>>
        /\ \A u \in Tasks \ {t} : pc'[u] = pc[u]
        /\ pc'[t] \in {"tTerm", "tKill"} => pc[t] \in {"tTasks", "tTerm"} /\ IsRunning
        /\ pc'[t] \in {"tTerm", "tKill", "tLogs"}
    BY <1>1, <1>5 DEF Signal, Kill, Reaped, SignalError, Goto
  <2>2. Leases' = Leases
    BY <1>1, <1>2, <2>1, EndersAreTasks DEF Leases, TeardownLabels
  <2>3. IsRunning' = IsRunning /\ \A u \in Tasks : Handles(u)' => Handles(u)
    BY <2>1 DEF Handles, IsRunning
  <2>4. ClearInv'
    BY <2>1, <2>2, <2>3, ClearFrame DEF ClearInv
  <2>5. \A u \in Enders : pc'[u] = pc[u] \/ {pc[u], pc'[u]} \subseteq TeardownLabels
    BY <1>1, <1>2, <2>1, EndersAreTasks DEF TeardownLabels
  <2>6. EndsInv'
    BY <2>1, <2>2, <2>5 DEF EndsInv, Enders, Stopping, Closing, TeardownLabels
  <2> QED
    BY <2>4, <2>6
<1>6. CASE Terminated(t)
  <2>1. process' = None
    BY <1>6 DEF Terminated
  <2>2. ClearInv'
    BY <2>1, ClearAfter DEF Clear
  <2>3. AfterTerminate(t) \in {"idle", "top", "cSleep", "publish", "down"}
    BY <1>1, TasksAssumption DEF AfterTerminate, Enders
  <2>4. /\ \A u \in Enders \ {t} : pc'[u] = pc[u]
        /\ t \in Enders => pc'[t] = AfterTerminate(t)
    <3> DEFINE pcs == [pc EXCEPT ![t] = AfterTerminate(t)]
    <3>1. \A u \in Tasks \ Supervisors : pc'[u] = pcs[u]
      BY <1>6 DEF Terminated, Schedule
    <3> QED
      BY <1>1, <3>1, EndersAreTasks
  <2>5. CASE t \notin Enders
    <3>1. state # "DRAINING"
      BY <1>1, <1>4, <2>5
    <3>2. \A u \in Enders : pc'[u] = pc[u]
      BY <2>4, <2>5
    <3> QED
      BY <2>2, <3>1, <3>2, EndsFrame
  <2>6. CASE t \in Enders
    <3>1. \A u \in Enders \ {t} : pc'[u] = pc[u]
      BY <2>4
    <3>2. pc'[t] = AfterTerminate(t) /\ ~Closing(t)'
      BY <2>3, <2>4, <2>6 DEF Closing, Stopping, TeardownLabels
    <3>3. \A u \in Enders : ~Closing(u)'
      <4>1. Closing(t) /\ Stopping(t)
        BY <1>2 DEF Closing, Stopping
      <4>2. \A u \in Enders \ {t} : ~Closing(u)
        <5>1. CASE t = Checker
          BY <1>2, <4>1, <5>1 DEF EndsInv, Enders, Closing, Stopping, TeardownLabels
        <5>2. CASE t = Reload
          <6>1. pc[Main] \in {"up", "joined"} /\ ~Stopping(Checker)
            BY <1>2, <4>1, <5>2 DEF EndsInv, TeardownLabels
          <6>2. pc[Checker] # "dWait"
            BY LabelKinds, EndersAreTasks DEF Enders, CheckerLabels, TeardownLabels
          <6> QED
            BY <5>2, <6>1, <6>2 DEF Enders, Closing, Stopping, TeardownLabels
        <5>3. CASE t = Main
          BY <1>2, <5>3 DEF EndsInv, Enders, Closing, Stopping, TeardownLabels
        <5> QED
          BY <2>6, <5>1, <5>2, <5>3 DEF Enders
      <4> QED
        BY <3>1, <3>2, <4>2 DEF Closing, Stopping
    <3>4. /\ t = Checker => pc'[t] = "cSleep"
          /\ t = Reload => pc'[t] = "publish"
          /\ t = Main => pc'[t] = "down"
      BY <2>6, <3>2, EndersAreTasks DEF AfterTerminate, Enders
    <3>5. /\ t = Checker => pc[Main] = "up"
          /\ t = Reload => pc[Main] \in {"up", "joined"} /\ "retire" \in Environment
          /\ t = Main => pc[Checker] = "done" /\ pc[Reload] = "done"
      BY <1>2 DEF EndsInv, TeardownLabels
    <3>6. /\ pc'[Main] # "up" => pc'[Checker] = "done"
          /\ pc'[Main] \notin {"up", "joined"} => pc'[Reload] = "done"
          /\ "stall" \notin Environment => pc'[Checker] # "qStop"
          /\ "retire" \notin Environment => pc'[Reload] \in {"watch", "done"}
      BY <2>6, <3>1, <3>4, <3>5, EndersAreTasks DEF EndsInv, Enders
    <3>7. \A u \in Enders : ~Stopping(u)'
      BY <3>3 DEF Closing
    <3> QED
      BY <2>2, <3>3, <3>6, <3>7 DEF EndsInv, Enders
  <2> QED
    BY <2>2, <2>5, <2>6
<1> QED
  BY <1>5, <1>6 DEF Terminating

LEMMA RequestLease ==
    ASSUME TypeOK, LockInv, ClearInv, EndsInv, NEW r \in Requests,
           \/ RequestStep(r) \/ Capture(r) \/ Finish(r)
           \/ CancelWaiting(r) \/ CancelStart(r) \/ CancelTeardown(r)
    PROVE  ClearInv' /\ EndsInv'
<1> USE DEF TypeOK, PcOK
<1>1. r \in Tasks \ Procs /\ r \notin Enders /\ Enders \subseteq Tasks
  BY EndersAreTasks
<1>2. CASE \/ Capture(r) \/ Reject(r) \/ AwaitStart(r) \/ StartRefused(r) \/ Finish(r)
           \/ CancelWaiting(r) \/ CancelTeardown(r)
  <2>1. /\ UNCHANGED <<state, process, os>>
        /\ \A u \in Tasks \ {r} : pc'[u] = pc[u]
        /\ pc'[r] \in {"captured", "idle", "qStart"}
        /\ \A x \in Requests \ {r} : servedBy'[x] = servedBy[x]
    BY <1>1, <1>2 DEF Capture, Reject, AwaitStart, StartRefused, Finish, CancelWaiting,
       CancelTeardown, Wait, Goto
  <2>2. ClearInv' /\ Leases' \subseteq Leases
    BY <1>1, <2>1, QuietLease DEF StartLabels, TeardownLabels
  <2> QED
    BY <1>1, <2>1, <2>2, EndsFrame
<1>3. CASE AcquireLease(r) \/ StartFound(r)
  <2>1. /\ state = "RUNNING" /\ UNCHANGED state
        /\ pc'[r] = "leased" /\ \A u \in Tasks \ {r} : pc'[u] = pc[u]
    BY <1>1, <1>3 DEF AcquireLease, StartFound, GrantLease, Goto
  <2>2. \A u \in Tasks : pc'[u] \notin StartLabels \cup TeardownLabels
    BY <2>1, RunningAlone DEF StartLabels, TeardownLabels
  <2>3. ClearInv'
    BY <2>1, <2>2 DEF ClearInv, Handles, StartLabels, TeardownLabels
  <2> QED
    BY <1>1, <2>1, <2>3, EndsFrame
<1>4. CASE StartOnDemand(r)
  BY <1>4, BeginStartLease DEF StartOnDemand
<1>5. CASE CancelStart(r)
  BY <1>5, StartTeardownLease DEF CancelStart
<1> QED
  BY <1>1, <1>2, <1>3, <1>4, <1>5, StartingLease, TerminatingLease DEF RequestStep

LEMMA SupervisorLease ==
    ASSUME TypeOK, LockInv, ClearInv, EndsInv, NEW s \in Supervisors, SupervisorStep(s)
    PROVE  ClearInv' /\ EndsInv'
<1> USE DEF TypeOK, PcOK
<1>1. s \in Tasks \ Procs /\ s \notin Enders /\ Enders \subseteq Tasks
  BY EndersAreTasks
<1>2. CASE AwaitTop(s) \/ AwaitRestart(s) \/ Reserve(s) \/ GiveUp(s)
  <2>1. /\ UNCHANGED <<state, process, os, servedBy>>
        /\ \A u \in Tasks \ {s} : pc'[u] = pc[u]
        /\ pc'[s] \in {"qTop", "qAgain", "sleep", "done"}
    BY <1>1, <1>2 DEF AwaitTop, AwaitRestart, Reserve, GiveUp, Wait, Goto
  <2>2. ClearInv' /\ Leases' \subseteq Leases
    BY <1>1, <2>1, QuietLease DEF StartLabels, TeardownLabels
  <2> QED
    BY <1>1, <2>1, <2>2, EndsFrame
<1>3. CASE Restart(s)
  BY <1>3, BeginStartLease DEF Restart
<1> QED
  BY <1>1, <1>2, <1>3, StartingLease, TerminatingLease DEF SupervisorStep

LEMMA MonitorLease ==
    ASSUME TypeOK, LockInv, ClearInv, EndsInv, NEW p \in Procs, MonitorStep(p) \/ Exit(p)
    PROVE  ClearInv' /\ EndsInv'
<1> USE DEF TypeOK, PcOK
<1>1. p \in Tasks /\ p \notin Enders /\ Enders \subseteq Tasks
  BY EndersAreTasks
<1>2. CASE AwaitMonitor(p) \/ MonitorStale(p)
  <2>1. /\ UNCHANGED <<state, process, os, servedBy>>
        /\ \A u \in Tasks \ {p} : pc'[u] = pc[u]
        /\ pc'[p] \in {"qMonitor", "done"}
    BY <1>1, <1>2 DEF AwaitMonitor, MonitorStale, Wait, Goto
  <2>2. ClearInv' /\ Leases' \subseteq Leases
    BY <1>1, <2>1, QuietLease DEF StartLabels, TeardownLabels
  <2> QED
    BY <1>1, <2>1, <2>2, EndsFrame
<1>3. CASE Exit(p)
  <2>1. /\ UNCHANGED <<state, process, servedBy, pc>> /\ os' = [os EXCEPT ![p] = "dead"]
    BY <1>3 DEF Exit
  <2>2. Leases' = Leases /\ (IsRunning' => IsRunning)
    BY <2>1 DEF Leases, IsRunning
  <2>3. \A u \in Tasks : Handles(u)' => Handles(u)
    BY <2>1, <2>2 DEF Handles
  <2>4. ClearInv'
    BY <2>1, <2>2, <2>3, ClearFrame DEF ClearInv
  <2> QED
    BY <2>1, <2>2, <2>4, EndsFrame
<1>4. CASE MonitorClears(p)
  <2>1. /\ process' = None /\ state' = state
        /\ pc'[p] = "mLogs" /\ \A u \in Tasks \ {p} : pc'[u] = pc[u]
    BY <1>1, <1>4 DEF MonitorClears, Goto
  <2>2. Leases' = Leases
    BY <2>1, <1>1, EndersAreTasks DEF Leases
  <2> QED
    BY <1>1, <2>1, <2>2, ClearAfter, EndsFrame DEF Clear
<1>5. CASE MonitorEnds(p)
  <2>1. process' = None
    BY <1>1, <1>5 DEF MonitorEnds, LockInv
  <2>2. state = "DRAINING" => state' = state
    BY <1>5 DEF MonitorEnds
  <2>3. \A u \in Requests \cup Enders : pc'[u] = pc[u]
    BY <1>1, <1>5, EndersAreTasks DEF MonitorEnds, Schedule
  <2>4. Leases' = Leases
    BY <2>3 DEF Leases
  <2> QED
    BY <2>1, <2>2, <2>3, <2>4, ClearAfter, EndsFrame DEF Clear
<1> QED
  BY <1>2, <1>3, <1>4, <1>5 DEF MonitorStep

LEMMA CheckerLease ==
    ASSUME TypeOK, LockInv, ClearInv, EndsInv, TurnInv, Prompt, CheckerStep \/ TimePasses
    PROVE  ClearInv' /\ EndsInv'
<1> USE DEF TypeOK, PcOK
<1>1. Checker \in Tasks \ Procs /\ Enders \subseteq Tasks /\ Checker # Reload /\ Checker # Main
  BY EndersAreTasks DEF Enders
<1>2. CheckerStep => pc[Checker] # "done" /\ pc[Main] = "up"
  BY DEF CheckerStep, AwaitSweep, Wait, SweepSkips, SweepDrains, EnterSweep, Entering, SweepStops,
     Terminating, Signal, Kill, Reaped, SignalError, Terminated, EndsInv
<1>3. CASE AwaitSweep \/ SweepSkips
  <2>1. /\ UNCHANGED <<state, process, os, servedBy>>
        /\ \A u \in Tasks \ {Checker} : pc'[u] = pc[u]
        /\ pc'[Checker] \in {"qSweep", "cSleep"}
    BY <1>1, <1>3 DEF AwaitSweep, SweepSkips, Wait, Goto
  <2>2. ClearInv' /\ Leases' \subseteq Leases
    BY <1>1, <2>1, QuietLease DEF StartLabels, TeardownLabels
  <2>3. ~Stopping(Checker)' /\ ~Closing(Checker)'
    BY <2>1 DEF Stopping, Closing, TeardownLabels
  <2> QED
    BY <1>1, <1>2, <1>3, <2>1, <2>2, <2>3
       DEF CheckerStep, EndsInv, Enders, Stopping, Closing
<1>4. CASE SweepDrains
  <2>1. /\ state = "RUNNING" /\ idle /\ Leases = {} /\ state' = "DRAINING"
        /\ owner \in {None, Checker} /\ pc[Checker] \in {"cSleep", "qSweep"}
    BY <1>4 DEF SweepDrains, StillIdle, EnterSweep, Entering
  <2>2. ~Closing(Reload) /\ ~Closing(Main)
    BY <2>1 DEF EndsInv, Enders
  <2>3. /\ \A u \in Enders \ {Checker} : pc'[u] = pc[u]
        /\ pc'[Checker] \in {"tTasks", "qStop"}
        /\ Leases' = {}
    <3>1. CASE waiters = <<>>
      BY <1>1, <1>4, <2>1, <3>1, EnterTerminateTasks DEF SweepDrains, Enders
    <3>2. CASE waiters # <<>>
      BY <1>1, <1>4, <2>1, <3>2, EndersAreTasks DEF SweepDrains, Goto, Leases, Enders
    <3> QED
      BY <3>1, <3>2
  <2>4. "stall" \notin Environment => pc'[Checker] # "qStop"
    <3>1. SUFFICES ASSUME "stall" \notin Environment PROVE pc'[Checker] # "qStop"
      OBVIOUS
    <3>2. waiters = <<>>
      BY <1>1, <2>1, <3>1, TasksAssumption
         DEF TurnInv, QueueInv, HoldingLabels, StartLabels, TeardownLabels
    <3> QED
      BY <1>1, <1>4, <3>2, EnterTerminateTasks DEF SweepDrains
  <2>5. ClearInv'
    BY <2>3, ClearAfter DEF Clear
  <2>6. EndsInv'
    BY <1>1, <1>2, <1>4, <2>1, <2>2, <2>3, <2>4
       DEF CheckerStep, EndsInv, Enders, Stopping, Closing
  <2> QED
    BY <2>5, <2>6
<1>5. CASE SweepStops
  <2>1. pc[Checker] = "qStop" /\ EnterTerminate(Checker, "STOPPED") /\ state' = state
    BY <1>5 DEF SweepStops
  <2>2. Leases = {} /\ state = "DRAINING" /\ ~Closing(Reload)
    BY <2>1 DEF EndsInv, Enders, Stopping, Closing
  <2>3. /\ pc'[Checker] = "tTasks" /\ Leases' = {}
        /\ \A u \in Enders \ {Checker} : pc'[u] = pc[u]
    BY <1>1, <2>1, <2>2, EnterTerminateTasks DEF Enders
  <2>4. ClearInv'
    BY <2>3, ClearAfter DEF Clear
  <2>5. EndsInv'
    BY <1>1, <1>2, <1>5, <2>1, <2>2, <2>3
       DEF CheckerStep, EndsInv, Enders, Stopping, Closing
  <2> QED
    BY <2>4, <2>5
<1>6. CASE TimePasses
  <2>1. UNCHANGED <<state, process, os, servedBy, pc>>
    BY <1>6 DEF TimePasses
  <2>2. Leases' = Leases
    BY <2>1 DEF Leases
  <2>3. ClearInv'
    BY <2>1, <2>2 DEF ClearInv, Clear, Handles, IsRunning
  <2> QED
    BY <2>1, <2>2, <2>3, EndsFrame
<1> QED
  BY <1>1, <1>3, <1>4, <1>5, <1>6, TerminatingLease DEF CheckerStep

LEMMA DrainingLease ==
    ASSUME TypeOK, LockInv, ClearInv, EndsInv, Prompt, NEW t \in {Reload, Main}, Draining(t)
    PROVE  ClearInv' /\ EndsInv'
<1> USE DEF TypeOK, PcOK
<1>1. /\ t \in Tasks \ Procs /\ t \in Enders /\ t # Checker /\ Enders \subseteq Tasks
      /\ DrainBegin(t) = IF t = Reload THEN "watch" ELSE "stopped"
      /\ Checker # Reload /\ Checker # Main /\ Reload # Main
  BY EndersAreTasks DEF Enders, DrainBegin
<1>2. pc[t] \in {DrainBegin(t), "qMark", "dWait", "qDrain"}
  BY DEF Draining, AwaitMark, MarkDraining, AwaitDrained, Drained, Wait, Entering
<1>3. t = Main => pc[Checker] = "done" /\ pc[Reload] = "done"
  BY <1>1, <1>2 DEF EndsInv
<1>4. t = Reload => pc[Main] \in {"up", "joined"} /\ "retire" \in Environment
  <2>1. t = Reload => pc[Main] \in {"up", "joined"}
    BY <1>1, <1>2 DEF EndsInv
  <2>2. ASSUME t = Reload PROVE "retire" \in Environment
    <3>1. CASE pc[t] = "watch"
      BY <1>1, <2>2, <3>1 DEF Draining, AwaitMark, MarkDraining, MayDrain, AwaitDrained, Drained,
         Wait, Entering
    <3>2. CASE pc[t] # "watch"
      BY <1>1, <1>2, <2>2, <3>2 DEF EndsInv
    <3> QED
      BY <3>1, <3>2
  <2> QED
    BY <2>1, <2>2
<1>5. pc[Checker] # "qStop"
  BY <1>1, <1>3, <1>4 DEF EndsInv, Prompt
(* The others stay, and so does what is asked of them. *)
<1>6. ASSUME \A u \in Tasks \ {t} : pc'[u] \in {pc[u], "done"},
             \A u \in Enders \ {t} : pc'[u] = pc[u],
             pc'[t] \in {"qMark", "dWait", "qDrain", "tTasks"},
             Stopping(t)' => Leases' = {},
             Closing(t)' => state' = "DRAINING" /\ ~Stopping(Checker),
             state' \in {state, "DRAINING"}, Leases' \subseteq Leases
      PROVE  EndsInv'
  <2>1. \A u \in Enders : Stopping(u)' => Leases' = {}
    BY <1>6 DEF EndsInv, Stopping
  <2>2. \A u \in Enders : Closing(u)' => state' = "DRAINING"
    BY <1>6 DEF EndsInv, Closing, Stopping
  <2>3. Stopping(Checker)' => ~Closing(Reload)'
    <3>1. Stopping(Checker)' => Stopping(Checker)
      BY <1>1, <1>6 DEF Stopping, Enders
    <3>2. CASE t = Reload
      BY <1>6, <3>1, <3>2
    <3>3. CASE t = Main
      BY <1>1, <1>3, <1>6, <3>3 DEF Closing, Stopping, Enders, TeardownLabels
    <3> QED
      BY <3>2, <3>3
  <2>4. /\ pc'[Main] # "up" => pc'[Checker] = "done"
        /\ pc'[Main] \notin {"up", "joined"} => pc'[Reload] = "done"
    BY <1>1, <1>3, <1>4, <1>6 DEF Enders, EndsInv
  <2>5. /\ "stall" \notin Environment => pc'[Checker] # "qStop"
        /\ "retire" \notin Environment => pc'[Reload] \in {"watch", "done"}
    BY <1>1, <1>3, <1>4, <1>6 DEF Enders, EndsInv
  <2> QED
    BY <2>1, <2>2, <2>3, <2>4, <2>5 DEF EndsInv
<1>7. CASE AwaitMark(t) \/ AwaitDrained(t)
  <2>1. /\ UNCHANGED <<state, process, os, servedBy>>
        /\ \A u \in Tasks \ {t} : pc'[u] = pc[u]
        /\ pc'[t] \in {"qMark", "qDrain"}
        /\ pc'[t] = "qDrain" => Leases = {} /\ pc[t] = "dWait"
    BY <1>1, <1>7 DEF AwaitMark, AwaitDrained, Wait, Goto
  <2>2. ClearInv' /\ Leases' \subseteq Leases
    BY <1>1, <2>1, QuietLease DEF StartLabels, TeardownLabels
  <2>3. Stopping(t)' => Leases' = {} /\ pc[t] = "dWait"
    BY <2>1, <2>2 DEF Stopping, TeardownLabels
  <2>4. Closing(t)' => state' = "DRAINING" /\ ~Stopping(Checker)
    <3>1. Closing(t)' => Closing(t)
      BY <2>1, <2>3 DEF Closing
    <3>2. Closing(t) => state = "DRAINING"
      BY <1>1 DEF EndsInv
    <3>3. Closing(t) => ~Stopping(Checker)
      BY <1>3 DEF EndsInv, Stopping, TeardownLabels
    <3> QED
      BY <2>1, <3>1, <3>2, <3>3
  <2> QED
    BY <1>1, <1>6, <2>1, <2>2, <2>3, <2>4
<1>8. CASE MarkDraining(t)
  <2>1. /\ owner \in {None, t} /\ pc[t] \in {"watch", "stopped", "qMark"}
        /\ UNCHANGED <<process, os, servedBy>> /\ state' = "DRAINING"
        /\ \A u \in Tasks \ {t} : pc'[u] = pc[u]
        /\ pc'[t] = "dWait"
    BY <1>1, <1>8 DEF MarkDraining, Entering, Goto
  <2>2. ClearInv' /\ Leases' \subseteq Leases
    BY <1>1, <2>1, QuietLease DEF StartLabels, TeardownLabels
  <2>3. \A u \in Tasks : pc[u] \notin HoldingLabels
    BY <1>1, <2>1, EntersAlone DEF HoldingLabels, StartLabels, TeardownLabels
  <2>4. ~Stopping(Checker)
    <3>1. pc[Checker] # "qDrain"
      BY LabelKinds, EndersAreTasks DEF Enders, CheckerLabels, TeardownLabels
    <3> QED
      BY <1>1, <1>5, <2>3, <3>1 DEF Stopping, HoldingLabels, Enders
  <2>5. ~Stopping(t)'
    BY <2>1 DEF Stopping, TeardownLabels
  <2> QED
    BY <1>1, <1>6, <2>1, <2>2, <2>4, <2>5
<1>9. CASE Drained(t)
  <2>1. /\ pc[t] \in {"dWait", "qDrain"}
        /\ pc[t] = "dWait" => Leases = {}
        /\ EnterTerminate(t, IF t = Reload THEN "DRAINING" ELSE "STOPPED") /\ state' = state
    BY <1>9 DEF Drained, Entering
  <2>2. Closing(t) /\ state = "DRAINING" /\ Leases = {}
    BY <1>1, <2>1 DEF EndsInv, Closing, Stopping
  <2>3. ~Stopping(Checker)
    BY <1>3, <2>2 DEF EndsInv, Stopping, TeardownLabels
  <2>4. /\ pc'[t] = "tTasks" /\ Leases' = {}
        /\ \A u \in Tasks \ {t} : pc'[u] \in {pc[u], "done"}
        /\ \A u \in Enders \ {t} : pc'[u] = pc[u]
    BY <1>1, <2>1, <2>2, EnterTerminateTasks DEF Enders
  <2>5. ClearInv'
    BY <2>4, ClearAfter DEF Clear
  <2> QED
    BY <1>6, <2>1, <2>2, <2>3, <2>4, <2>5
<1> QED
  BY <1>7, <1>8, <1>9 DEF Draining

LEMMA GatewayLease ==
    ASSUME TypeOK, LockInv, ClearInv, EndsInv, Prompt,
           ReloadStep \/ Reconfigure \/ MainStep \/ BeginShutdown
    PROVE  ClearInv' /\ EndsInv'
<1> USE DEF TypeOK, PcOK
<1>1. /\ Enders \subseteq Tasks \ Procs
      /\ Checker # Reload /\ Checker # Main /\ Reload # Main
  BY EndersAreTasks
<1>2. CASE Publish
  <2>1. /\ UNCHANGED <<state, process, os, servedBy>> /\ pc[Reload] = "publish"
        /\ \A u \in Tasks \ {Reload} : pc'[u] = pc[u]
        /\ pc'[Reload] = "watch"
    BY <1>1, <1>2 DEF Publish, Goto, Enders
  <2>2. ClearInv' /\ Leases' \subseteq Leases
    BY <1>1, <2>1, QuietLease DEF StartLabels, TeardownLabels, Enders
  <2> QED
    BY <1>1, <2>1, <2>2 DEF EndsInv, Enders, Stopping, Closing, TeardownLabels
<1>3. CASE NothingToClean
  <2>1. /\ UNCHANGED <<state, process, os, servedBy>> /\ pc[Main] = "stopped"
        /\ \A u \in Tasks \ {Main} : pc'[u] = pc[u]
        /\ pc'[Main] = "down"
    BY <1>1, <1>3 DEF NothingToClean, Goto, Enders
  <2>2. ClearInv' /\ Leases' \subseteq Leases
    BY <1>1, <2>1, QuietLease DEF StartLabels, TeardownLabels, Enders
  <2> QED
    BY <1>1, <2>1, <2>2 DEF EndsInv, Enders, Stopping, Closing, TeardownLabels
<1>4. CASE Reconfigure \/ BeginShutdown \/ StopWatcher
  <2>1. /\ UNCHANGED <<state, process, os, servedBy>>
        /\ \A u \in Requests : pc'[u] = pc[u]
        /\ \A u \in Tasks : pc'[u] \in {pc[u], "top", "joined", "stopped", "done"}
    BY <1>4, EndersAreTasks DEF Reconfigure, Schedule, BeginShutdown, StopWatcher, Enders
  <2>2. Leases' = Leases /\ IsRunning' = IsRunning
    BY <2>1 DEF Leases, IsRunning
  <2>3. \A u \in Tasks : Handles(u)' => Handles(u)
    BY <2>1, <2>2 DEF Handles
  <2>4. ClearInv'
    BY <2>1, <2>2, <2>3, ClearFrame DEF ClearInv
  <2>5. CASE Reconfigure
    <3>1. \A u \in Enders : pc'[u] = pc[u]
      BY <2>5, EndersAreTasks DEF Reconfigure, Schedule
    <3> QED
      BY <2>1, <2>2, <2>4, <3>1, EndsFrame
  <2>6. CASE BeginShutdown
    <3>1. pc'[Main] = "joined" /\ pc'[Checker] = "done" /\ pc'[Reload] = pc[Reload]
      BY <1>1, <2>6 DEF BeginShutdown, Enders
    <3> QED
      BY <2>1, <2>2, <2>4, <3>1 DEF EndsInv, Enders, Stopping, Closing, TeardownLabels
  <2>7. CASE StopWatcher
    <3>1. /\ pc[Main] = "joined" /\ pc'[Main] = "stopped" /\ pc'[Reload] = "done"
          /\ pc'[Checker] = pc[Checker]
      BY <1>1, <2>7 DEF StopWatcher, Enders
    <3> QED
      BY <2>1, <2>2, <2>4, <3>1 DEF EndsInv, Enders, Stopping, Closing, TeardownLabels
  <2> QED
    BY <1>4, <2>5, <2>6, <2>7
<1> QED
  BY <1>1, <1>2, <1>3, <1>4, DrainingLease, TerminatingLease DEF ReloadStep, MainStep, Enders

LEMMA NextLease == TypeOK /\ LeaseInv /\ Prompt /\ [Next]_vars => LeaseInv'
<1> SUFFICES ASSUME TypeOK, LeaseInv, Prompt, [Next]_vars PROVE LeaseInv'
  OBVIOUS
<1>1. LockInv'
  BY NextLock DEF LeaseInv
<1>2. CASE Running
  <2>1. ClearInv' /\ EndsInv'
    BY <1>2, RequestLease, SupervisorLease, MonitorLease, CheckerLease, GatewayLease
       DEF Running, LeaseInv
  <2>2. TurnInv'
    <3>1. \A t \in {Checker, Reload} : pc[t] \in TeardownLabels => state # "RUNNING"
      BY DEF LeaseInv, EndsInv, Enders, Closing, Stopping
    <3> QED
      BY <1>2, <3>1, RequestQueue, SupervisorQueue, MonitorQueue, CheckerQueue, GatewayQueue
         DEF Running, LeaseInv, TurnInv
  <2> QED
    BY <1>1, <2>1, <2>2 DEF LeaseInv
<1>3. CASE UNCHANGED vars
  <2>1. Leases' = Leases /\ IsRunning' = IsRunning
    BY <1>3 DEF vars, Leases, IsRunning
  <2>2. ClearInv' /\ EndsInv' /\ TurnInv'
    BY <1>3, <2>1
       DEF vars, LeaseInv, ClearInv, Clear, Handles, EndsInv, Stopping, Closing, TurnInv, QueueInv
  <2> QED
    BY <1>1, <2>2 DEF LeaseInv
<1> QED
  BY <1>2, <1>3 DEF Next

LEMMA InitLease == Init => LeaseInv
<1> SUFFICES ASSUME Init PROVE LeaseInv
  OBVIOUS
<1>1. /\ \A t \in Tasks : pc[t] \notin StartLabels \cup TeardownLabels
      /\ pc[Checker] = "cSleep" /\ pc[Reload] = "watch" /\ pc[Main] = "up"
  BY TasksAssumption DEF Init, Tasks, StartLabels, TeardownLabels
<1>2. process = None /\ waiters = <<>> /\ ~idle
  BY DEF Init
<1>3. ClearInv
  BY <1>2 DEF ClearInv, Clear
<1>4. EndsInv
  BY <1>1 DEF EndsInv, Enders, Stopping, Closing, TeardownLabels
<1>5. TurnInv
  BY <1>2 DEF TurnInv, QueueInv
<1> QED
  BY <1>3, <1>4, <1>5, InitLock DEF LeaseInv

(* No process is signalled under a lease on it: a stop begins when no      *)
(* lease is left, or before the first one was granted, and none is granted *)
(* meanwhile.  Teardowns may be cancelled and the loop may stall; only a   *)
(* stall together with a retirement by reload is left out.                 *)
THEOREM LeasesProtect == ASSUME Prompt PROVE Spec => []NoKillUnderLease
<1>1. LeaseInv => NoKillUnderLease
  BY DEF LeaseInv, ClearInv, Clear, Handles, NoKillUnderLease
<1>2. TypeOK /\ LeaseInv /\ [Next]_vars => LeaseInv'
  BY NextLease
<1> QED
  BY <1>1, <1>2, InitLease, TypeCorrect, PTL DEF Spec

(***************************************************************************)
(* Restart loops, and what is left at the end                              *)
(***************************************************************************)

Reserved == {"sleep", "qAgain"}

(* A loop that gives up after its backoff finds its own reservation above  *)
(* the limit, and with it the count of attempts.                           *)
RecoveryInv ==
    /\ FailureIsSupervised
    /\ \A s \in Supervisors : pc[s] \in Reserved => reserved[s] <= attempts

PastPublish == {"publish"} \cup TeardownLabels

(* A retirement has begun to terminate the runtime, or has ended. *)
Ended == \/ ~registered
         \/ pc[Main] = "down"
         \/ \E t \in {Reload, Main} : pc[t] \in PastPublish

(* From then on there is no restart loop; after the lifespan, no lease and *)
(* no process.                                                             *)
EndInv ==
    /\ Ended => \A s \in Supervisors : pc[s] = "done"
    /\ pc[Main] = "down" => Leases = {} /\ \A p \in Procs : os[p] = "dead"

SupervisionInv == RecoveryInv /\ EndInv

(* A runtime that ends drains. *)
LEMMA EndedDrains ==
    ASSUME StopInv, pc[Main] # "down", Ended PROVE state = "DRAINING"
BY DEF StopInv, Retiring, Retires, Ended, PastPublish

(* A step that begins no end and wakes no loop at the end. *)
LEMMA EndFrame ==
    ASSUME EndInv, registered' = registered, pc'[Main] # "down", pc[Main] # "down",
           \A t \in {Reload, Main} : pc'[t] \in PastPublish => pc[t] \in PastPublish,
           Ended => \A s \in Supervisors : pc[s] = "done" => pc'[s] = "done"
    PROVE  EndInv'
<1>1. Ended' => Ended
  BY DEF Ended
<1> QED
  BY <1>1 DEF EndInv

(* A step after which the runtime has not failed. *)
LEMMA NoFailure ==
    ASSUME TypeOK, TypeOK', RecoveryInv, state' # "FAILED",
           \A s \in Supervisors : pc'[s] \in Reserved =>
               pc[s] \in Reserved /\ reserved'[s] = reserved[s] /\ attempts' >= attempts
    PROVE  RecoveryInv'
BY DEF RecoveryInv, FailureIsSupervised, TypeOK

(* A step that changes neither the restart loops nor their budget. *)
LEMMA QuietSupervision ==
    ASSUME SupervisionInv, UNCHANGED <<budgetVars, restartTask, registered>>,
           state' = "FAILED" => state = "FAILED",
           \A s \in Supervisors :
               (pc'[s] = "done" <=> pc[s] = "done") /\ (pc'[s] \in Reserved => pc[s] \in Reserved),
           pc'[Main] # "down", pc[Main] # "down",
           \A t \in {Reload, Main} : pc'[t] \in PastPublish => pc[t] \in PastPublish,
           restartTask \in Supervisors \cup {None}
    PROVE  SupervisionInv'
<1>1. EndInv'
  BY EndFrame DEF SupervisionInv
<1>2. RecoveryInv'
  BY DEF SupervisionInv, RecoveryInv, FailureIsSupervised, Recovering
<1> QED
  BY <1>1, <1>2 DEF SupervisionInv

(* Scheduling leaves a loop behind if there is an attempt left. *)
LEMMA ScheduleSupervises ==
    ASSUME TypeOK, NEW pcs, PcOK(pcs), NEW budget \in Nat, Schedule(pcs, budget),
           \A s \in Supervisors : pc[s] # "done" => pcs[s] # "done",
           attempts' = attempts, policy' = budget
    PROVE  FailureIsSupervised'
<1> USE DEF TypeOK, PcOK
<1>1. Supervisors \subseteq Tasks /\ None \notin Tasks
  BY TasksAssumption DEF Tasks
<1>2. CASE attempts < budget /\ ~Recovering
  <2>1. PICK s \in Supervisors : restartTask' = s /\ pc' = [pcs EXCEPT ![s] = "top"]
    BY <1>2 DEF Schedule
  <2>2. pc'[s] = "top" /\ s # None
    BY <1>1, <2>1
  <2> QED
    BY <2>1, <2>2 DEF FailureIsSupervised, Recovering
<1>3. CASE ~(attempts < budget /\ ~Recovering)
  <2>1. restartTask' = restartTask /\ pc' = pcs
    BY <1>3 DEF Schedule
  <2>2. attempts < budget => restartTask # None /\ pcs[restartTask] # "done"
    BY <1>3 DEF Recovering
  <2> QED
    BY <2>1, <2>2 DEF FailureIsSupervised, Recovering
<1> QED
  BY <1>2, <1>3

LEMMA BeginStartSupervision ==
    ASSUME TypeOK, TypeOK', OneSupervisor, SupervisionInv, pc[Main] # "down",
           NEW t \in Requests \cup Supervisors, BeginStart(t), pc[t] # "done"
    PROVE  SupervisionInv'
<1> USE DEF TypeOK, PcOK
<1>1. /\ Supervisors \cup {t, Reload, Main} \subseteq Tasks
      /\ {Reload, Main} \cap (Requests \cup Supervisors) = {} /\ None \notin Tasks
  BY TasksAssumption DEF Tasks
<1>2. /\ \A u \in Tasks : pc'[u] = IF u = t THEN "spawn"
                                   ELSE IF u = restartTask THEN "done" ELSE pc[u]
      /\ state' = "STARTING" /\ registered' = registered
  BY DEF BeginStart
<1>3. \A s \in Supervisors : pc'[s] \in {"spawn", "done"} /\ (pc[s] = "done" => pc'[s] = "done")
  BY <1>1, <1>2 DEF OneSupervisor
<1>4. RecoveryInv'
  BY <1>2, <1>3, NoFailure DEF SupervisionInv, Reserved
<1>5. pc'[Reload] = pc[Reload] /\ pc'[Main] = pc[Main]
  BY <1>1, <1>2
<1>6. EndInv'
  BY <1>2, <1>3, <1>5, EndFrame DEF SupervisionInv
<1> QED
  BY <1>4, <1>6 DEF SupervisionInv

LEMMA EnterTerminateSupervision ==
    ASSUME TypeOK, TypeOK', OneSupervisor, SupervisionInv, pc[Main] # "down",
           NEW t \in Tasks \ Procs, NEW target, EnterTerminate(t, target),
           state' # "FAILED", pc[t] # "done"
    PROVE  SupervisionInv'
<1> USE DEF TypeOK, PcOK
<1>1. /\ Supervisors \cup {Reload, Main} \subseteq Tasks
      /\ {Reload, Main} \cap Supervisors = {} /\ None \notin Tasks
  BY TasksAssumption DEF Tasks
<1>2. /\ pc'[t] = "tTasks" /\ \A u \in Tasks \ {t} : pc'[u] \in {pc[u], "done"}
      /\ \A u \in {Reload, Main} \ {t} : pc'[u] = pc[u]
      /\ registered' = registered
  BY EnterTerminateTasks
<1>3. UNCHANGED budgetVars
  BY DEF EnterTerminate
<1>4. RecoveryInv'
  BY <1>1, <1>2, <1>3, NoFailure DEF SupervisionInv, Reserved
<1>5. CASE t \in {Reload, Main}
  <2>1. \A s \in Supervisors : pc'[s] = "done"
    BY <1>1, <1>2, <1>5 DEF EnterTerminate, OneSupervisor
  <2>2. pc'[Main] # "down"
    BY <1>1, <1>2, <1>5
  <2> QED
    BY <1>4, <2>1, <2>2 DEF SupervisionInv, EndInv
<1>6. CASE t \notin {Reload, Main}
  <2>1. pc'[Main] = pc[Main] /\ pc'[Reload] = pc[Reload]
    BY <1>2, <1>6
  <2>2. \A s \in Supervisors : pc[s] = "done" => pc'[s] = "done"
    BY <1>1, <1>2
  <2>3. EndInv'
    BY <1>2, <2>1, <2>2, EndFrame DEF SupervisionInv
  <2> QED
    BY <1>4, <2>3 DEF SupervisionInv
<1> QED
  BY <1>5, <1>6

LEMMA StartingSupervision ==
    ASSUME RefinementInv, TypeOK', OneSupervisor, SupervisionInv, pc[Main] # "down",
           NEW t \in Requests \cup Supervisors, Starting(t)
    PROVE  SupervisionInv'
<1> USE DEF RefinementInv, ProcessInv, TypeOK, PcOK
<1>1. /\ t \in Tasks \ Procs /\ Supervisors \cup {Reload, Main} \cup Procs \subseteq Tasks
      /\ {Reload, Main} \cap (Requests \cup Supervisors \cup Procs) = {}
      /\ Supervisors \cap Procs = {}
  BY TasksAssumption DEF Tasks
<1>2. pc[t] \in StartLabels /\ state = "STARTING"
  BY <1>1 DEF Starting, Spawn, PortOpen, Ready, StartFails, StartLabels, LockCoversLifecycle
<1>3. CASE Spawn(t) \/ PortOpen(t)
  <2>1. /\ UNCHANGED <<state, budgetVars, restartTask, registered>>
        /\ \A u \in Tasks \ Procs : u # t => pc'[u] = pc[u]
        /\ pc'[t] \in {"port", "probe"}
    BY <1>1, <1>3 DEF Spawn, PortOpen, Goto
  <2>2. \A s \in Supervisors :
          (pc'[s] = "done" <=> pc[s] = "done") /\ (pc'[s] \in Reserved => pc[s] \in Reserved)
    BY <1>1, <1>2, <2>1 DEF StartLabels, Reserved
  <2>3. pc'[Main] = pc[Main] /\ pc'[Reload] = pc[Reload]
    BY <1>1, <2>1
  <2> QED
    BY <2>1, <2>2, <2>3, QuietSupervision
<1>4. CASE Ready(t)
  <2>1. /\ state' = "RUNNING" /\ registered' = registered /\ UNCHANGED budgetVars
        /\ pc'[t] \in {"leased", "done"} /\ \A u \in Tasks \ {t} : pc'[u] = pc[u]
        /\ t \in Supervisors => pc'[t] = "done"
    BY <1>1, <1>4, TasksAssumption DEF Ready, GrantLease, Goto
  <2>2. RecoveryInv'
    BY <1>1, <2>1, NoFailure DEF SupervisionInv, Reserved
  <2>3. pc'[Main] = pc[Main] /\ pc'[Reload] = pc[Reload]
    BY <1>1, <2>1
  <2>4. \A s \in Supervisors : pc[s] = "done" => pc'[s] = "done"
    BY <1>1, <2>1
  <2>5. EndInv'
    BY <2>1, <2>3, <2>4, EndFrame DEF SupervisionInv
  <2> QED
    BY <2>2, <2>5 DEF SupervisionInv
<1>5. CASE StartFails(t)
  BY <1>1, <1>2, <1>5, EnterTerminateSupervision DEF StartFails, StartLabels
<1> QED
  BY <1>3, <1>4, <1>5 DEF Starting

LEMMA TerminatingSupervision ==
    ASSUME RefinementInv, TypeOK', OneSupervisor, SupervisionInv, pc[Main] # "down",
           NEW t \in Tasks \ Procs, Terminating(t)
    PROVE  SupervisionInv'
<1> USE DEF RefinementInv, ProcessInv, TypeOK, PcOK
<1>1. /\ t \in Requests \cup Supervisors \cup {Checker, Reload, Main}
      /\ Supervisors \cup {Reload, Main} \cup Requests \subseteq Tasks
      /\ {Checker, Reload, Main} \cap (Requests \cup Supervisors \cup Procs) = {}
      /\ Supervisors \cap Requests = {} /\ Checker # Reload /\ Checker # Main /\ Reload # Main
  BY TasksAssumption DEF Tasks
<1>2. CASE Signal(t) \/ Kill(t) \/ Reaped(t) \/ SignalError(t)
  <2>1. /\ UNCHANGED <<state, budgetVars, restartTask, registered>>
        /\ \A u \in Tasks \ {t} : pc'[u] = pc[u]
        /\ pc[t] \in TeardownLabels /\ pc'[t] \in TeardownLabels
    BY <1>2 DEF Signal, Kill, Reaped, SignalError, Goto, TeardownLabels
  <2>2. \A s \in Supervisors :
          (pc'[s] = "done" <=> pc[s] = "done") /\ (pc'[s] \in Reserved => pc[s] \in Reserved)
    BY <1>1, <2>1 DEF TeardownLabels, Reserved
  <2>3. pc'[Main] # "down" /\ \A u \in {Reload, Main} : pc'[u] \in PastPublish => pc[u] \in PastPublish
    BY <1>1, <2>1 DEF TeardownLabels, PastPublish
  <2> QED
    BY <2>1, <2>2, <2>3, QuietSupervision
<1>3. CASE Terminated(t)
  <2> DEFINE pcs == [pc EXCEPT ![t] = AfterTerminate(t)]
  <2>1. /\ pc[t] = "tLogs" /\ state' = final /\ UNCHANGED <<budgetVars, os, registered>>
        /\ final # "FAILED" => pc' = pcs
        /\ final = "FAILED" => Schedule(pcs, policy)
    BY <1>3 DEF Terminated
  <2>2. AfterTerminate(t) \in {"idle", "top", "cSleep", "publish", "down"}
    BY <1>1 DEF AfterTerminate
  <2>3. PcOK(pcs)
    BY AfterTerminateLabel, PcExcept
  <2>4. \A u \in Tasks : pcs[u] = IF u = t THEN AfterTerminate(t) ELSE pc[u]
    OBVIOUS
  <2>5. \A u \in Tasks : pc'[u] \in {pcs[u], "top"} /\ (u \notin Supervisors => pc'[u] = pcs[u])
    BY <2>1, <2>3, ScheduleOutside
  <2>6. \A s \in Supervisors : pc'[s] \in Reserved => pc[s] \in Reserved
    BY <1>1, <2>2, <2>4, <2>5 DEF Reserved
  <2>7. FailureIsSupervised'
    <3>1. CASE final = "FAILED"
      <4>1. \A s \in Supervisors : pc[s] # "done" => pcs[s] # "done"
        BY <1>1, <2>2, <2>4
      <4>2. policy \in Nat
        BY BudgetsAssumption
      <4> HIDE DEF pcs
      <4> QED
        BY <2>1, <2>3, <3>1, <4>1, <4>2, ScheduleSupervises
    <3>2. CASE final # "FAILED"
      BY <2>1, <3>2 DEF FailureIsSupervised
    <3> QED
      BY <3>1, <3>2
  <2>8. RecoveryInv'
    BY <2>1, <2>6, <2>7 DEF SupervisionInv, RecoveryInv
  <2>9. CASE t \in {Reload, Main}
    <3>1. final # "FAILED" /\ Leases = {} /\ \A s \in Supervisors : pc[s] = "done"
      BY <2>1, <2>9 DEF StopInv, Emptied, SupervisionInv, EndInv, Ended, PastPublish, TeardownLabels
    <3>2. \A u \in Supervisors \cup Requests : pc'[u] = pc[u]
      BY <1>1, <2>1, <2>4, <2>9, <3>1
    <3>3. \A p \in Procs : os'[p] = "dead"
      BY <2>1, NoProcess DEF LockCoversLifecycle
    <3> QED
      BY <2>8, <3>1, <3>2, <3>3 DEF SupervisionInv, EndInv, Leases
  <2>10. CASE t \notin {Reload, Main}
    <3>1. pc'[Main] = pc[Main] /\ pc'[Reload] = pc[Reload]
      BY <1>1, <2>4, <2>5, <2>10
    <3>2. Ended => final # "FAILED"
      BY <1>1, <2>1, <2>10, EndedDrains DEF StopInv, TeardownLabels
    <3>3. Ended => \A s \in Supervisors : pc[s] = "done" => pc'[s] = "done"
      BY <1>1, <2>1, <2>4, <3>2
    <3>4. EndInv'
      BY <2>1, <3>1, <3>3, EndFrame DEF SupervisionInv
    <3> QED
      BY <2>8, <3>4 DEF SupervisionInv
  <2> QED
    BY <2>9, <2>10
<1> QED
  BY <1>2, <1>3 DEF Terminating

LEMMA RequestSupervision ==
    ASSUME RefinementInv, TypeOK', TeardownsEnd, OneSupervisor, SupervisionInv, pc[Main] # "down",
           NEW r \in Requests,
           \/ RequestStep(r) \/ Capture(r) \/ Finish(r)
           \/ CancelWaiting(r) \/ CancelStart(r) \/ CancelTeardown(r)
    PROVE  SupervisionInv'
<1> USE DEF RefinementInv, ProcessInv, TypeOK, PcOK
<1>1. /\ r \in Tasks \ Procs /\ r \notin Supervisors \cup {Reload, Main}
      /\ Supervisors \cup {Reload, Main} \subseteq Tasks
  BY TasksAssumption DEF Tasks
<1>2. CASE \/ Capture(r) \/ Reject(r) \/ AcquireLease(r) \/ AwaitStart(r) \/ StartRefused(r)
           \/ StartFound(r) \/ Finish(r) \/ CancelWaiting(r)
  <2>1. /\ UNCHANGED <<state, budgetVars, restartTask, registered>>
        /\ \A u \in Tasks \ {r} : pc'[u] = pc[u]
    BY <1>1, <1>2 DEF Capture, Reject, AcquireLease, AwaitStart, StartRefused, StartFound, Finish,
       CancelWaiting, Wait, GrantLease, Goto
  <2>2. \A u \in Supervisors \cup {Reload, Main} : pc'[u] = pc[u]
    BY <1>1, <2>1
  <2> QED
    BY <2>1, <2>2, QuietSupervision
<1>3. CASE StartOnDemand(r)
  BY <1>3, BeginStartSupervision DEF StartOnDemand, EnterStart, Entering
<1>4. CASE CancelStart(r)
  <2>1. pc[r] \in StartLabels /\ state = "STARTING"
    BY <1>1, <1>4 DEF CancelStart, LockCoversLifecycle
  <2> QED
    BY <1>1, <1>4, <2>1, EnterTerminateSupervision DEF CancelStart, StartLabels
<1>5. CASE CancelTeardown(r)
  BY <1>5 DEF CancelTeardown, TeardownsEnd
<1> QED
  BY <1>1, <1>2, <1>3, <1>4, <1>5, StartingSupervision, TerminatingSupervision DEF RequestStep

LEMMA SupervisorSupervision ==
    ASSUME RefinementInv, TypeOK', OneSupervisor, SupervisionInv, pc[Main] # "down",
           NEW s \in Supervisors, SupervisorStep(s)
    PROVE  SupervisionInv'
<1> USE DEF RefinementInv, ProcessInv, TypeOK, PcOK
<1>1. /\ s \in Tasks \ Procs /\ s \notin {Reload, Main}
      /\ Supervisors \cup {Reload, Main} \subseteq Tasks
  BY TasksAssumption DEF Tasks
<1>2. CASE AwaitTop(s) \/ AwaitRestart(s)
  <2>1. /\ UNCHANGED <<state, budgetVars, restartTask, registered>>
        /\ \A u \in Tasks \ {s} : pc'[u] = pc[u]
        /\ \/ pc[s] = "top" /\ pc'[s] = "qTop"
           \/ pc[s] = "sleep" /\ pc'[s] = "qAgain"
    BY <1>1, <1>2 DEF AwaitTop, AwaitRestart, Wait, Goto
  <2>2. \A u \in {Reload, Main} : pc'[u] = pc[u]
    BY <1>1, <2>1
  <2>3. \A x \in Supervisors :
          (pc'[x] = "done" <=> pc[x] = "done") /\ (pc'[x] \in Reserved => pc[x] \in Reserved)
    BY <1>1, <2>1 DEF Reserved
  <2> QED
    BY <2>1, <2>2, <2>3, QuietSupervision
<1>3. CASE Reserve(s)
  <2>1. /\ UNCHANGED <<state, policy, restartTask, registered>>
        /\ attempts' = attempts + 1 /\ reserved' = [reserved EXCEPT ![s] = attempts + 1]
        /\ pc[s] # "done" /\ pc'[s] = "sleep" /\ \A u \in Tasks \ {s} : pc'[u] = pc[u]
    BY <1>1, <1>3 DEF Reserve, Entering, Goto
  <2>2. restartTask = s
    BY <2>1 DEF OneSupervisor
  <2>3. FailureIsSupervised'
    BY <1>1, <2>1, <2>2, TasksAssumption DEF FailureIsSupervised, Recovering
  <2>4. \A x \in Supervisors : pc'[x] \in Reserved => reserved'[x] <= attempts'
    BY <1>1, <2>1 DEF SupervisionInv, RecoveryInv
  <2>5. pc'[Main] = pc[Main] /\ pc'[Reload] = pc[Reload]
    BY <1>1, <2>1
  <2>6. \A x \in Supervisors : pc[x] = "done" => pc'[x] = "done"
    BY <1>1, <2>1
  <2>7. EndInv'
    BY <2>1, <2>5, <2>6, EndFrame DEF SupervisionInv
  <2> QED
    BY <2>3, <2>4, <2>7 DEF SupervisionInv, RecoveryInv
<1>4. CASE Restart(s)
  BY <1>4, BeginStartSupervision DEF Restart, Entering
<1>5. CASE GiveUp(s)
  <2>1. /\ UNCHANGED <<state, budgetVars, registered>>
        /\ pc'[s] = "done" /\ \A u \in Tasks \ {s} : pc'[u] = pc[u]
        /\ \/ ~MayRestart
           \/ pc[s] \in Reserved /\ ~StillAllowed(s)
    BY <1>1, <1>5 DEF GiveUp, Entering, Goto, Reserved
  <2>2. policy \in Nat
    BY BudgetsAssumption
  <2>3. ~(state = "FAILED" /\ attempts < policy)
    <3>1. CASE ~MayRestart
      BY <3>1 DEF MayRestart
    <3>2. CASE pc[s] \in Reserved /\ ~StillAllowed(s)
      BY <2>2, <3>2 DEF StillAllowed, SupervisionInv, RecoveryInv
    <3> QED
      BY <2>1, <3>1, <3>2
  <2>4. FailureIsSupervised'
    BY <2>1, <2>3 DEF FailureIsSupervised
  <2>5. \A x \in Supervisors : pc'[x] \in Reserved => reserved'[x] <= attempts'
    BY <1>1, <2>1 DEF SupervisionInv, RecoveryInv, Reserved
  <2>6. pc'[Main] = pc[Main] /\ pc'[Reload] = pc[Reload]
    BY <1>1, <2>1
  <2>7. \A x \in Supervisors : pc[x] = "done" => pc'[x] = "done"
    BY <1>1, <2>1
  <2>8. EndInv'
    BY <2>1, <2>6, <2>7, EndFrame DEF SupervisionInv
  <2> QED
    BY <2>4, <2>5, <2>8 DEF SupervisionInv, RecoveryInv
<1> QED
  BY <1>1, <1>2, <1>3, <1>4, <1>5, StartingSupervision, TerminatingSupervision DEF SupervisorStep

LEMMA MonitorSupervision ==
    ASSUME RefinementInv, TypeOK', SupervisionInv, pc[Main] # "down",
           NEW p \in Procs, MonitorStep(p) \/ Exit(p)
    PROVE  SupervisionInv'
<1> USE DEF RefinementInv, ProcessInv, TypeOK, PcOK
<1>1. /\ p \in Tasks \ (Requests \cup {Main}) /\ p \notin Supervisors \cup {Reload, Main}
      /\ Supervisors \cup {Reload, Main} \subseteq Tasks
      /\ {Reload, Main} \cap Supervisors = {}
  BY TasksAssumption DEF Tasks
<1>2. CASE AwaitMonitor(p) \/ MonitorStale(p) \/ MonitorClears(p) \/ Exit(p)
  <2>1. /\ UNCHANGED <<state, budgetVars, restartTask, registered>>
        /\ \A u \in Tasks \ {p} : pc'[u] = pc[u]
    BY <1>1, <1>2 DEF AwaitMonitor, MonitorStale, MonitorClears, Exit, Wait, Goto
  <2>2. \A u \in Supervisors \cup {Reload, Main} : pc'[u] = pc[u]
    BY <1>1, <2>1
  <2> QED
    BY <2>1, <2>2, QuietSupervision
<1>3. CASE MonitorEnds(p)
  <2> DEFINE pcs == [pc EXCEPT ![p] = "done"]
  <2>1. /\ UNCHANGED <<budgetVars, registered>>
        /\ state \in {"DRAINING", "STOPPED"} => pc' = pcs /\ state' = state
        /\ state \notin {"DRAINING", "STOPPED"} => Schedule(pcs, policy)
    BY <1>3 DEF MonitorEnds
  <2>2. PcOK(pcs)
    BY <1>1, DoneLabel, PcExcept
  <2>3. \A u \in Tasks : pcs[u] = IF u = p THEN "done" ELSE pc[u]
    OBVIOUS
  <2>4. \A u \in Tasks : pc'[u] \in {pcs[u], "top"} /\ (u \notin Supervisors => pc'[u] = pcs[u])
    BY <2>1, <2>2, ScheduleOutside
  <2>5. \A s \in Supervisors : pc'[s] \in Reserved => pc[s] \in Reserved
    BY <1>1, <2>3, <2>4 DEF Reserved
  <2>6. FailureIsSupervised'
    <3>1. CASE state \in {"DRAINING", "STOPPED"}
      BY <2>1, <3>1 DEF FailureIsSupervised
    <3>2. CASE state \notin {"DRAINING", "STOPPED"}
      <4>1. \A s \in Supervisors : pc[s] # "done" => pcs[s] # "done"
        BY <1>1, <2>3
      <4>2. policy \in Nat
        BY BudgetsAssumption
      <4> HIDE DEF pcs
      <4> QED
        BY <2>1, <2>2, <3>2, <4>1, <4>2, ScheduleSupervises
    <3> QED
      BY <3>1, <3>2
  <2>7. pc'[Main] = pc[Main] /\ pc'[Reload] = pc[Reload]
    BY <1>1, <2>3, <2>4
  <2>8. Ended => \A s \in Supervisors : pc'[s] = pc[s]
    BY <1>1, <2>1, <2>3, EndedDrains
  <2>9. EndInv'
    BY <2>1, <2>7, <2>8, EndFrame DEF SupervisionInv
  <2> QED
    BY <2>1, <2>5, <2>6, <2>9 DEF SupervisionInv, RecoveryInv
<1> QED
  BY <1>2, <1>3 DEF MonitorStep

LEMMA CheckerSupervision ==
    ASSUME RefinementInv, TypeOK', OneSupervisor, SupervisionInv, pc[Main] # "down",
           CheckerStep \/ TimePasses
    PROVE  SupervisionInv'
<1> USE DEF RefinementInv, ProcessInv, TypeOK, PcOK
<1>1. /\ Checker \in Tasks \ Procs /\ Checker \notin Supervisors \cup {Reload, Main}
      /\ Supervisors \cup {Reload, Main} \subseteq Tasks
  BY TasksAssumption DEF Tasks
<1>2. CASE AwaitSweep \/ SweepSkips \/ TimePasses
  <2>1. /\ UNCHANGED <<state, budgetVars, restartTask, registered>>
        /\ \A u \in Tasks \ {Checker} : pc'[u] = pc[u]
    BY <1>1, <1>2 DEF AwaitSweep, SweepSkips, TimePasses, Wait, Goto
  <2>2. \A u \in Supervisors \cup {Reload, Main} : pc'[u] = pc[u]
    BY <1>1, <2>1
  <2> QED
    BY <2>1, <2>2, QuietSupervision
<1>3. CASE SweepDrains
  <2>1. owner \in {None, Checker} /\ pc[Checker] \in {"cSleep", "qSweep"}
    BY <1>3 DEF SweepDrains, EnterSweep, Entering
  <2>2. waiters = <<>> /\ state' = "DRAINING"
    BY <1>1, <1>3, <2>1, TasksAssumption
       DEF SweepDrains, StillIdle, QueueInv, HoldingLabels, StartLabels, TeardownLabels
  <2>3. EnterTerminate(Checker, "STOPPED")
    BY <1>3, <2>2 DEF SweepDrains
  <2> QED
    BY <1>1, <2>1, <2>2, <2>3, EnterTerminateSupervision
<1>4. CASE SweepStops
  BY <1>4 DEF SweepStops, StopInv
<1> QED
  BY <1>1, <1>2, <1>3, <1>4, TerminatingSupervision DEF CheckerStep

LEMMA DrainingSupervision ==
    ASSUME RefinementInv, TypeOK', OneSupervisor, SupervisionInv, pc[Main] # "down",
           NEW t \in {Reload, Main}, Draining(t)
    PROVE  SupervisionInv'
<1> USE DEF RefinementInv, ProcessInv, TypeOK, PcOK
<1>1. /\ t \in Tasks \ Procs /\ {Reload, Main} \cap Supervisors = {}
      /\ Supervisors \cup {Reload, Main} \subseteq Tasks
  BY TasksAssumption DEF Tasks
<1>2. CASE AwaitMark(t) \/ MarkDraining(t) \/ AwaitDrained(t)
  <2>1. /\ state' \in {state, "DRAINING"} /\ UNCHANGED <<budgetVars, restartTask, registered>>
        /\ \A u \in Tasks \ {t} : pc'[u] = pc[u]
        /\ pc'[t] \in DrainLabels
    BY <1>1, <1>2 DEF AwaitMark, MarkDraining, AwaitDrained, Wait, Goto, DrainLabels
  <2>2. \A s \in Supervisors : pc'[s] = pc[s]
    BY <1>1, <2>1
  <2>3. pc'[Main] # "down" /\ \A u \in {Reload, Main} : pc'[u] \in PastPublish => pc[u] \in PastPublish
    BY <1>1, <2>1 DEF DrainLabels, PastPublish, TeardownLabels
  <2> QED
    BY <2>1, <2>2, <2>3, QuietSupervision
<1>3. CASE Drained(t)
  <2>1. /\ pc[t] \in {"dWait", "qDrain"} /\ state' = state
        /\ EnterTerminate(t, IF t = Reload THEN "DRAINING" ELSE "STOPPED")
    BY <1>3 DEF Drained, Entering
  <2>2. state = "DRAINING"
    BY <2>1 DEF StopInv, Retiring, Retires
  <2> QED
    BY <1>1, <2>1, <2>2, EnterTerminateSupervision
<1> QED
  BY <1>2, <1>3 DEF Draining

LEMMA GatewaySupervision ==
    ASSUME RefinementInv, TypeOK', OneSupervisor, SupervisionInv, pc[Main] # "down",
           ReloadStep \/ Reconfigure \/ MainStep \/ BeginShutdown
    PROVE  SupervisionInv'
<1> USE DEF RefinementInv, ProcessInv, TypeOK, PcOK
<1>1. /\ {Checker, Reload, Main} \subseteq Tasks \ Procs
      /\ {Checker, Reload, Main} \cap (Supervisors \cup Requests) = {}
      /\ Supervisors \cup Requests \subseteq Tasks
      /\ Checker # Reload /\ Checker # Main /\ Reload # Main
  BY TasksAssumption DEF Tasks
<1>2. CASE Publish
  <2>1. /\ pc[Reload] = "publish" /\ pc'[Reload] = "watch"
        /\ \A u \in Tasks \ {Reload} : pc'[u] = pc[u]
        /\ UNCHANGED <<state, restartTask, budgetVars>>
    BY <1>1, <1>2 DEF Publish, Goto
  <2>2. \A s \in Supervisors : pc'[s] = pc[s] /\ pc[s] = "done"
    BY <1>1, <2>1 DEF SupervisionInv, EndInv, Ended, PastPublish
  <2>3. pc'[Main] # "down"
    BY <1>1, <2>1
  <2>4. RecoveryInv'
    BY <2>1, <2>2 DEF SupervisionInv, RecoveryInv, FailureIsSupervised, Recovering
  <2> QED
    BY <2>2, <2>3, <2>4 DEF SupervisionInv, EndInv
<1>3. CASE Reconfigure
  <2>1. PICK budget \in Budgets :
          /\ policy' = budget
          /\ IF state = "FAILED" THEN Schedule(pc, budget) ELSE UNCHANGED <<pc, restartTask>>
    BY <1>3 DEF Reconfigure
  <2>2. UNCHANGED <<state, attempts, reserved, registered>>
    BY <1>3 DEF Reconfigure
  <2>3. \A u \in Tasks : pc'[u] \in {pc[u], "top"} /\ (u \notin Supervisors => pc'[u] = pc[u])
    BY <2>1, ScheduleOutside
  <2>4. FailureIsSupervised'
    <3>1. CASE state = "FAILED"
      BY <2>1, <2>2, <3>1, BudgetsAssumption, ScheduleSupervises
    <3>2. CASE state # "FAILED"
      BY <2>2, <3>2 DEF FailureIsSupervised
    <3> QED
      BY <3>1, <3>2
  <2>5. \A s \in Supervisors : pc'[s] \in Reserved => reserved'[s] <= attempts'
    BY <1>1, <2>2, <2>3 DEF SupervisionInv, RecoveryInv, Reserved
  <2>6. pc'[Main] = pc[Main] /\ pc'[Reload] = pc[Reload]
    BY <1>1, <2>3
  <2>7. Ended => pc' = pc
    BY <2>1, EndedDrains
  <2>8. EndInv'
    BY <2>2, <2>6, <2>7, EndFrame DEF SupervisionInv
  <2> QED
    BY <2>4, <2>5, <2>8 DEF SupervisionInv, RecoveryInv
<1>4. CASE BeginShutdown \/ StopWatcher
  <2>1. /\ UNCHANGED <<state, restartTask, budgetVars, registered>>
        /\ \A u \in Tasks \ {Checker, Reload, Main} : pc'[u] = pc[u]
        /\ pc'[Main] \in {"joined", "stopped"} /\ pc'[Reload] \in {pc[Reload], "done"}
    BY <1>1, <1>4 DEF BeginShutdown, StopWatcher
  <2>2. \A s \in Supervisors : pc'[s] = pc[s]
    BY <1>1, <2>1
  <2>3. pc'[Main] # "down" /\ \A u \in {Reload, Main} : pc'[u] \in PastPublish => pc[u] \in PastPublish
    BY <2>1 DEF PastPublish, TeardownLabels
  <2> QED
    BY <2>1, <2>2, <2>3, QuietSupervision
<1>5. CASE NothingToClean
  <2>1. /\ ~registered /\ UNCHANGED <<state, restartTask, budgetVars, os>>
        /\ \A u \in Tasks \ {Main} : pc'[u] = pc[u]
    BY <1>5 DEF NothingToClean, Goto
  <2>2. /\ Leases = {} /\ \A p \in Procs : os[p] = "dead"
        /\ \A s \in Supervisors : pc[s] = "done"
    BY <2>1 DEF StopInv, Emptied, SupervisionInv, EndInv, Ended
  <2>3. \A u \in Supervisors \cup Requests : pc'[u] = pc[u]
    BY <1>1, <2>1
  <2>4. RecoveryInv'
    BY <2>1, <2>3 DEF SupervisionInv, RecoveryInv, FailureIsSupervised, Recovering
  <2> QED
    BY <2>1, <2>2, <2>3, <2>4 DEF SupervisionInv, EndInv, Leases
<1> QED
  BY <1>1, <1>2, <1>3, <1>4, <1>5, DrainingSupervision, TerminatingSupervision
     DEF ReloadStep, MainStep

LEMMA NextSupervision ==
    ASSUME Orderly
    PROVE  RefinementInv /\ OneSupervisor /\ SupervisionInv /\ [Next]_vars => SupervisionInv'
<1> SUFFICES ASSUME RefinementInv, OneSupervisor, SupervisionInv, [Next]_vars PROVE SupervisionInv'
  OBVIOUS
<1>1. TypeOK'
  BY NextType DEF RefinementInv, ProcessInv
<1>2. CASE pc[Main] # "down" /\ Running
  BY <1>1, <1>2, RequestSupervision, SupervisorSupervision, MonitorSupervision, CheckerSupervision,
     GatewaySupervision DEF Running, Orderly
<1>3. CASE UNCHANGED vars
  BY <1>3 DEF vars, SupervisionInv, RecoveryInv, FailureIsSupervised, Recovering, EndInv, Ended,
     Leases
<1> QED
  BY <1>2, <1>3 DEF Next

LEMMA InitSupervision == Init => SupervisionInv
<1> SUFFICES ASSUME Init PROVE SupervisionInv
  OBVIOUS
<1>1. /\ \A s \in Supervisors : pc[s] = "done"
      /\ pc[Main] = "up" /\ state = "STOPPED"
  BY TasksAssumption DEF Init, Tasks
<1> QED
  BY <1>1 DEF SupervisionInv, RecoveryInv, FailureIsSupervised, EndInv, Reserved

LEMMA SupervisionEver ==
    ASSUME Orderly PROVE Spec => [](RefinementInv /\ OneSupervisor /\ SupervisionInv)
<1>1. Init => RefinementInv /\ SupervisionInv
  BY InitRefinement, InitSupervision
<1>2. RefinementInv /\ OneSupervisor /\ SupervisionInv /\ [Next]_vars =>
        RefinementInv' /\ SupervisionInv'
  BY NextRefinement, NextSupervision
<1> QED
  BY <1>1, <1>2, SingleSupervisor, PTL DEF Spec

(* A FAILED runtime with an attempt left always has a restart loop: a loop *)
(* that gives up after its backoff had reserved an attempt the policy no   *)
(* longer allows, and a policy that allows more is reconciled at once.     *)
THEOREM FailuresSupervised == ASSUME Orderly PROVE Spec => []FailureIsSupervised
<1>1. SupervisionInv => FailureIsSupervised
  BY DEF SupervisionInv, RecoveryInv
<1> QED
  BY <1>1, SupervisionEver, PTL

(* A runtime that the registry has dropped has no process and no restart   *)
(* loop, and stays DRAINING.                                               *)
THEOREM RetiredForGood == ASSUME Orderly PROVE Spec => []RetiredStaysDown
<1>1. RefinementInv /\ SupervisionInv => RetiredStaysDown
  BY DEF RefinementInv, StopInv, Retiring, SupervisionInv, EndInv, Ended, RetiredStaysDown
<1> QED
  BY <1>1, SupervisionEver, PTL

(* When the lifespan has ended no process, restart loop or lease is left.  *)
THEOREM NothingSurvives == ASSUME Orderly PROVE Spec => []NothingSurvivesShutdown
<1>1. SupervisionInv => NothingSurvivesShutdown
  BY DEF SupervisionInv, EndInv, Ended, NothingSurvivesShutdown
<1> QED
  BY <1>1, SupervisionEver, PTL

(***************************************************************************)
(* The budget of a failed runtime                                          *)
(***************************************************************************)

(* A step that neither lowers the count of attempts nor starts a failed    *)
(* runtime: any but the entry of a start.                                  *)
Frugal ==
    /\ attempts' >= attempts
    /\ state' # "STARTING" \/ state' = state

LEMMA StartTeardownFrugal ==
    ASSUME TypeOK, NEW t, Starting(t) \/ Terminating(t) PROVE Frugal
BY DEF TypeOK, Starting, Spawn, PortOpen, Ready, StartFails, Terminating, Signal, Kill, Reaped,
   SignalError, Terminated, EnterTerminate, Frugal

LEMMA RequestFrugal ==
    ASSUME TypeOK, NEW r,
           \/ RequestStep(r) \/ Capture(r) \/ Finish(r)
           \/ CancelWaiting(r) \/ CancelStart(r) \/ CancelTeardown(r),
           state = "FAILED"
    PROVE  Frugal
<1>1. ~StartOnDemand(r)
  BY DEF StartOnDemand
<1>2. CASE Starting(r) \/ Terminating(r)
  BY <1>2, StartTeardownFrugal
<1>3. CASE ~(Starting(r) \/ Terminating(r))
  BY <1>1, <1>3 DEF RequestStep, Capture, Reject, AcquireLease, AwaitStart, StartRefused,
     StartFound, Finish, CancelWaiting, CancelStart, CancelTeardown, EnterTerminate, Wait, TypeOK,
     Frugal
<1> QED
  BY <1>2, <1>3

LEMMA SupervisorFrugal ==
    ASSUME TypeOK, NEW s \in Supervisors, SupervisorStep(s)
    PROVE  Frugal \/ (attempts' = attempts /\ pc[s] # "spawn" /\ pc'[s] = "spawn")
<1>1. CASE Restart(s)
  BY <1>1 DEF Restart, Entering, BeginStart, Tasks
<1>2. CASE Starting(s) \/ Terminating(s)
  BY <1>2, StartTeardownFrugal
<1>3. CASE AwaitTop(s) \/ Reserve(s) \/ AwaitRestart(s) \/ GiveUp(s)
  BY <1>3 DEF AwaitTop, Reserve, AwaitRestart, GiveUp, Wait, TypeOK, Frugal
<1> QED
  BY <1>1, <1>2, <1>3 DEF SupervisorStep

LEMMA MonitorFrugal ==
    ASSUME TypeOK, NEW p, MonitorStep(p) \/ Exit(p) PROVE Frugal
BY DEF MonitorStep, AwaitMonitor, MonitorStale, MonitorClears, MonitorEnds, Exit, Wait, TypeOK,
   Frugal

LEMMA GatewayFrugal ==
    ASSUME TypeOK,
           \/ CheckerStep \/ TimePasses
           \/ ReloadStep \/ Reconfigure \/ MainStep \/ BeginShutdown
    PROVE  Frugal
<1>1. CASE CheckerStep \/ TimePasses
  BY <1>1, StartTeardownFrugal
     DEF CheckerStep, AwaitSweep, SweepSkips, SweepDrains, SweepStops, TimePasses, EnterTerminate,
         Wait, TypeOK, Frugal
<1>2. ASSUME NEW t, Draining(t) PROVE Frugal
  BY <1>2 DEF Draining, AwaitMark, MarkDraining, AwaitDrained, Drained, EnterTerminate, Wait,
     TypeOK, Frugal
<1>3. CASE ReloadStep \/ MainStep
  BY <1>2, <1>3, StartTeardownFrugal
     DEF ReloadStep, MainStep, Publish, StopWatcher, NothingToClean, TypeOK, Frugal
<1>4. CASE Reconfigure \/ BeginShutdown
  BY <1>4 DEF Reconfigure, BeginShutdown, TypeOK, Frugal
<1> QED
  BY <1>1, <1>3, <1>4

(* A failed runtime does not get its attempts back, and only a restart     *)
(* loop starts it: in every environment, cut-short teardowns included.     *)
THEOREM BudgetsKept == Spec => BudgetIsKept
<1> DEFINE Kept ==
      state = "FAILED" =>
        /\ attempts' >= attempts
        /\ state' = "STARTING" => \E s \in Supervisors : pc[s] # "spawn" /\ pc'[s] = "spawn"
<1>1. TypeOK /\ [Next]_vars => [Kept]_vars
  <2> SUFFICES ASSUME TypeOK, [Next]_vars, state = "FAILED", vars' # vars PROVE Kept
    BY DEF vars
  <2>1. Running
    BY DEF Next
  <2>2. CASE \E s \in Supervisors : SupervisorStep(s)
    BY <2>2, SupervisorFrugal DEF Frugal, TypeOK
  <2>3. CASE ~\E s \in Supervisors : SupervisorStep(s)
    <3>1. Frugal
      BY <2>1, <2>3, RequestFrugal, MonitorFrugal, GatewayFrugal DEF Running
    <3> QED
      BY <3>1 DEF Frugal
  <2> QED
    BY <2>2, <2>3
<1> QED
  BY <1>1, TypeCorrect, PTL DEF Spec, BudgetIsKept
=============================================================================
