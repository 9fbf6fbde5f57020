------------------------ MODULE EndpointRuntimeProofs ------------------------
(* Theorems about EndpointRuntime, for all values of its constants. *)
EXTENDS EndpointRuntime, SequenceTheorems, TLAPS

(***************************************************************************)
(* The lock's queue                                                        *)
(***************************************************************************)

(* A queue stays a queue of tasks when a cancelled waiter leaves it. *)
LEMMA LeaveType ==
    ASSUME NEW S, NEW queue \in Seq(S), NEW t
    PROVE  Leave(queue, t) \in Seq(S)
<1>1. CASE \E i \in DOMAIN queue : queue[i] = t
  <2> DEFINE i == CHOOSE j \in DOMAIN queue : queue[j] = t
  <2>1. i \in 1 .. Len(queue)
    BY <1>1
  <2>2. SubSeq(queue, 1, i - 1) \in Seq(S)
    <3> HIDE DEF i
    <3>1. 1 \in Int /\ i - 1 \in Int /\ \A j \in 1 .. i - 1 : queue[j] \in S
      BY <2>1
    <3> QED
      BY <3>1, SubSeqProperties
  <2>3. SubSeq(queue, i + 1, Len(queue)) \in Seq(S)
    <3> HIDE DEF i
    <3>1. /\ i + 1 \in Int /\ Len(queue) \in Int
          /\ \A j \in i + 1 .. Len(queue) : queue[j] \in S
      BY <2>1
    <3> QED
      BY <3>1, SubSeqProperties
  <2>4. Leave(queue, t) = SubSeq(queue, 1, i - 1) \o SubSeq(queue, i + 1, Len(queue))
    BY <1>1 DEF Leave, RemoveAt
  <2> QED
    BY <2>2, <2>3, <2>4, ConcatProperties
<1>2. CASE ~\E i \in DOMAIN queue : queue[i] = t
  BY <1>2 DEF Leave
<1> QED
  BY <1>1, <1>2

LockOK == owner \in Tasks \cup {None} /\ waiters \in Seq(Tasks)

LEMMA ReleaseType ==
    ASSUME LockOK, Release
    PROVE  LockOK'
BY HeadTailProperties DEF LockOK, Release

LEMMA UnlockType ==
    ASSUME LockOK, NEW t \in Tasks, Unlock(t)
    PROVE  LockOK'
BY ReleaseType, LeaveType DEF LockOK, Unlock

(***************************************************************************)
(* Labels                                                                  *)
(***************************************************************************)

(* Each kind of task has its own labels: no task is of two kinds. *)
LEMMA LabelKinds ==
    /\ \A r \in Requests : LabelsOf(r) = RequestLabels \cup StartLabels \cup TeardownLabels
    /\ \A s \in Supervisors : LabelsOf(s) = SupervisorLabels \cup StartLabels \cup TeardownLabels
    /\ \A p \in Procs : LabelsOf(p) = MonitorLabels
    /\ LabelsOf(Checker) = CheckerLabels \cup TeardownLabels
    /\ LabelsOf(Reload) = ReloadLabels \cup TeardownLabels
    /\ LabelsOf(Main) = MainLabels \cup TeardownLabels
<1>1. ASSUME NEW r \in Requests
      PROVE  LabelsOf(r) = RequestLabels \cup StartLabels \cup TeardownLabels
  BY TasksAssumption DEF LabelsOf
<1>2. ASSUME NEW s \in Supervisors
      PROVE  LabelsOf(s) = SupervisorLabels \cup StartLabels \cup TeardownLabels
  BY TasksAssumption DEF LabelsOf
<1>3. ASSUME NEW p \in Procs PROVE LabelsOf(p) = MonitorLabels
  BY TasksAssumption DEF LabelsOf
<1>4. LabelsOf(Checker) = CheckerLabels \cup TeardownLabels
  BY TasksAssumption DEF LabelsOf
<1>5. LabelsOf(Reload) = ReloadLabels \cup TeardownLabels
  BY TasksAssumption DEF LabelsOf
<1>6. LabelsOf(Main) = MainLabels \cup TeardownLabels
  BY TasksAssumption DEF LabelsOf
<1> QED
  BY <1>1, <1>2, <1>3, <1>4, <1>5, <1>6

LEMMA LabelsAreLabels == ASSUME NEW t \in Tasks PROVE LabelsOf(t) \subseteq Labels
BY LabelKinds DEF Tasks, Labels

LEMMA PcExcept ==
    ASSUME NEW f, PcOK(f), NEW t \in Tasks, NEW label \in LabelsOf(t)
    PROVE  PcOK([f EXCEPT ![t] = label])
BY LabelsAreLabels DEF PcOK

LEMMA PcExcept2 ==
    ASSUME NEW f, PcOK(f), NEW t \in Tasks, NEW label \in LabelsOf(t),
           NEW u \in Tasks, NEW label2 \in LabelsOf(u)
    PROVE  PcOK([f EXCEPT ![t] = label, ![u] = label2])
BY LabelsAreLabels DEF PcOK

(* Every task but a request may end. *)
LEMMA DoneLabel ==
    ASSUME NEW t \in Tasks \ (Requests \cup {Main}) PROVE "done" \in LabelsOf(t)
BY LabelKinds DEF Tasks, SupervisorLabels, MonitorLabels, CheckerLabels, ReloadLabels

(* Every task but a monitor may start or terminate the process. *)
LEMMA TeardownLabel ==
    ASSUME NEW t \in Tasks \ Procs PROVE TeardownLabels \subseteq LabelsOf(t)
BY LabelKinds DEF Tasks

LEMMA StartLabel ==
    ASSUME NEW t \in Requests \cup Supervisors
    PROVE  StartLabels \subseteq LabelsOf(t)
BY LabelKinds

LEMMA GotoType ==
    ASSUME TypeOK, NEW t \in Tasks, NEW label \in LabelsOf(t), Goto(t, label)
    PROVE  PcOK(pc')
BY PcExcept DEF TypeOK, Goto

(***************************************************************************)
(* Type correctness of the shared helpers                                  *)
(***************************************************************************)

USE DEF lockVars, refVars, budgetVars, worldVars, gatewayVars

LEMMA ScheduleType ==
    ASSUME TypeOK, NEW pcs, PcOK(pcs), NEW budget, Schedule(pcs, budget)
    PROVE  PcOK(pc') /\ restartTask' \in Supervisors \cup {None}
<1>1. CASE attempts < budget /\ ~Recovering
  <2>1. PICK s \in Supervisors : restartTask' = s /\ pc' = [pcs EXCEPT ![s] = "top"]
    BY <1>1 DEF Schedule
  <2>2. s \in Tasks /\ "top" \in LabelsOf(s)
    BY LabelKinds DEF Tasks, SupervisorLabels
  <2> QED
    BY <2>1, <2>2, PcExcept
<1>2. CASE ~(attempts < budget /\ ~Recovering)
  BY <1>2 DEF Schedule, TypeOK
<1> QED
  BY <1>1, <1>2

LEMMA WaitType ==
    ASSUME TypeOK, NEW t \in Tasks, NEW want, NEW queued \in LabelsOf(t),
           Wait(t, want, queued)
    PROVE  TypeOK'
<1>1. PcOK(pc')
  BY GotoType DEF Wait
<1>2. waiters' \in Seq(Tasks)
  BY AppendProperties DEF Wait, TypeOK
<1> QED
  BY <1>1, <1>2 DEF Wait, TypeOK

LEMMA BeginStartType ==
    ASSUME TypeOK, NEW t \in Requests \cup Supervisors, BeginStart(t), attempts' \in Nat
    PROVE  TypeOK'
<1>1. PcOK(pc')
  <2>1. "spawn" \in LabelsOf(t) /\ t \in Tasks
    BY StartLabel DEF StartLabels, Tasks
  <2>2. ASSUME NEW x \in Tasks PROVE pc'[x] \in LabelsOf(x)
    BY <2>1, DoneLabel, TasksAssumption DEF BeginStart, TypeOK, PcOK, Tasks
  <2> QED
    BY <2>2, LabelsAreLabels DEF BeginStart, PcOK
<1>2. waiters' \in Seq(Tasks)
  BY LeaveType DEF BeginStart, TypeOK
<1>3. restartTask' \in Supervisors \cup {None} /\ owner' \in Tasks /\ state' \in States
  BY DEF BeginStart, TypeOK, States, Tasks
<1> QED
  BY <1>1, <1>2, <1>3 DEF BeginStart, TypeOK

LEMMA EnterTerminateType ==
    ASSUME TypeOK, NEW t \in Tasks \ Procs, NEW target \in {"STOPPED", "DRAINING", "FAILED"},
           EnterTerminate(t, target), state' \in States
    PROVE  TypeOK'
<1>1. PcOK(pc')
  <2>1. "tTasks" \in LabelsOf(t)
    BY TeardownLabel DEF TeardownLabels
  <2>2. ASSUME NEW x \in Tasks PROVE pc'[x] \in LabelsOf(x)
    BY <2>1, DoneLabel, TasksAssumption DEF EnterTerminate, TypeOK, PcOK, Tasks
  <2> QED
    BY <2>2, LabelsAreLabels DEF EnterTerminate, PcOK
<1>2. waiters' \in Seq(Tasks)
  <2>1. Leave(waiters, restartTask) \in Seq(Tasks)
    BY LeaveType DEF TypeOK
  <2> QED
    BY <2>1, LeaveType DEF EnterTerminate
<1>3. restartTask' \in Supervisors \cup {None} /\ exitTask' \in Procs \cup {None}
  BY DEF EnterTerminate, TypeOK
<1> QED
  BY <1>1, <1>2, <1>3 DEF EnterTerminate, TypeOK

(***************************************************************************)
(* Type correctness, task by task                                          *)
(***************************************************************************)

LEMMA GrantLeaseType ==
    ASSUME TypeOK, NEW r \in Requests, GrantLease(r)
    PROVE  PcOK(pc') /\ servedBy' \in [Requests -> Procs \cup {None}]
<1>1. r \in Tasks /\ "leased" \in LabelsOf(r)
  BY LabelKinds DEF Tasks, RequestLabels
<1> QED
  BY <1>1, GotoType DEF GrantLease, TypeOK

LEMMA StartingType ==
    ASSUME TypeOK, NEW t \in Requests \cup Supervisors, Starting(t)
    PROVE  TypeOK'
<1>1. /\ t \in Tasks /\ t \in Tasks \ Procs
      /\ "port" \in LabelsOf(t) /\ "probe" \in LabelsOf(t)
  BY StartLabel, TasksAssumption DEF Tasks, StartLabels
<1>2. CASE Spawn(t)
  <2>1. PICK p \in Procs :
          /\ os' = [os EXCEPT ![p] = "alive"]
          /\ servedBy' = [r \in Requests |-> IF servedBy[r] = p THEN None ELSE servedBy[r]]
          /\ process' = p
          /\ exitTask' = p
          /\ pc' = [pc EXCEPT ![t] = "port", ![p] = "mWait"]
    BY <1>2 DEF Spawn
  <2>2. p \in Tasks /\ "mWait" \in LabelsOf(p)
    BY LabelKinds DEF Tasks, MonitorLabels
  <2>3. PcOK(pc')
    BY <1>1, <2>1, <2>2, PcExcept2 DEF TypeOK
  <2> QED
    BY <1>2, <2>1, <2>3 DEF Spawn, TypeOK
<1>3. CASE PortOpen(t)
  BY <1>1, <1>3, GotoType DEF PortOpen, TypeOK
<1>4. CASE Ready(t)
  <2>1. LockOK'
    BY <1>4, ReleaseType DEF Ready, TypeOK, LockOK
  <2>2. /\ PcOK(pc')
        /\ servedBy' \in [Requests -> Procs \cup {None}]
        /\ restartTask' \in Supervisors \cup {None}
    <3>1. CASE t \in Requests /\ GrantLease(t) /\ UNCHANGED restartTask
      BY <3>1, GrantLeaseType DEF TypeOK
    <3>2. CASE /\ t \in Supervisors
               /\ Goto(t, "done")
               /\ restartTask' = IF restartTask = t THEN None ELSE restartTask
               /\ UNCHANGED servedBy
      BY <1>1, <3>2, GotoType, DoneLabel, TasksAssumption DEF TypeOK
    <3> QED
      BY <1>4, <3>1, <3>2 DEF Ready
  <2> QED
    BY <1>4, <2>1, <2>2 DEF Ready, TypeOK, LockOK, States
<1>5. CASE StartFails(t)
  BY <1>1, <1>5, EnterTerminateType DEF StartFails, TypeOK
<1> QED
  BY <1>2, <1>3, <1>4, <1>5 DEF Starting

(* Whoever terminates the process goes on where its caller left off. *)
LEMMA AfterTerminateLabel == ASSUME NEW t \in Tasks \ Procs PROVE AfterTerminate(t) \in LabelsOf(t)
<1>1. CASE t \in Requests
  BY <1>1, LabelKinds, TasksAssumption DEF AfterTerminate, RequestLabels
<1>2. CASE t \in Supervisors
  BY <1>2, LabelKinds, TasksAssumption DEF AfterTerminate, SupervisorLabels
<1>3. CASE t = Checker
  BY <1>3, LabelKinds, TasksAssumption DEF AfterTerminate, CheckerLabels
<1>4. CASE t = Reload
  BY <1>4, LabelKinds, TasksAssumption DEF AfterTerminate, ReloadLabels
<1>5. CASE t = Main
  BY <1>5, LabelKinds, TasksAssumption DEF AfterTerminate, MainLabels
<1> QED
  BY <1>1, <1>2, <1>3, <1>4, <1>5 DEF Tasks

LEMMA TerminatingType ==
    ASSUME TypeOK, NEW t \in Tasks \ Procs, Terminating(t)
    PROVE  TypeOK'
<1>1. "tTerm" \in LabelsOf(t) /\ "tKill" \in LabelsOf(t) /\ "tLogs" \in LabelsOf(t)
  BY TeardownLabel DEF TeardownLabels
<1>2. CASE Signal(t)
  BY <1>1, <1>2, GotoType DEF Signal, TypeOK
<1>3. CASE Kill(t)
  BY <1>1, <1>3, GotoType DEF Kill, TypeOK
<1>4. CASE Reaped(t)
  BY <1>1, <1>4, GotoType DEF Reaped, TypeOK
<1>5. CASE SignalError(t)
  BY <1>1, <1>5, GotoType DEF SignalError, TypeOK
<1>6. CASE Terminated(t)
  <2> DEFINE pcs == [pc EXCEPT ![t] = AfterTerminate(t)]
  <2>1. AfterTerminate(t) \in LabelsOf(t)
    BY AfterTerminateLabel
  <2>2. PcOK(pcs)
    BY <2>1, PcExcept DEF TypeOK
  <2>3. PcOK(pc') /\ restartTask' \in Supervisors \cup {None}
    <3>1. CASE final = "FAILED"
      <4>1. Schedule(pcs, policy)
        BY <1>6, <3>1 DEF Terminated
      <4> QED
        BY <2>2, <4>1, ScheduleType
    <3>2. CASE final # "FAILED"
      BY <1>6, <2>2, <3>2 DEF Terminated, TypeOK
    <3> QED
      BY <3>1, <3>2
  <2>4. LockOK'
    BY <1>6, ReleaseType DEF Terminated, TypeOK, LockOK
  <2> QED
    BY <1>6, <2>3, <2>4 DEF Terminated, TypeOK, LockOK, States
<1> QED
  BY <1>2, <1>3, <1>4, <1>5, <1>6 DEF Terminating

LEMMA RequestType ==
    ASSUME TypeOK, NEW r \in Requests, RequestStep(r) \/ Capture(r) \/ Finish(r)
    PROVE  TypeOK'
<1>1. /\ r \in Tasks /\ r \in Requests \cup Supervisors /\ r \in Tasks \ Procs
      /\ RequestLabels \subseteq LabelsOf(r)
  BY LabelKinds, TasksAssumption DEF Tasks
<1>2. \A label \in {"idle", "captured", "qStart", "leased"} : label \in LabelsOf(r)
  BY <1>1 DEF RequestLabels
<1>3. CASE Capture(r)
  BY <1>1, <1>2, <1>3, GotoType DEF Capture, TypeOK
<1>4. CASE Reject(r)
  BY <1>1, <1>2, <1>4, GotoType DEF Reject, TypeOK
<1>5. CASE AcquireLease(r)
  BY <1>5, GrantLeaseType DEF AcquireLease, TypeOK
<1>6. CASE AwaitStart(r)
  BY <1>1, <1>2, <1>6, WaitType DEF AwaitStart
<1>7. CASE StartRefused(r)
  BY <1>1, <1>2, <1>7, GotoType, ReleaseType DEF StartRefused, TypeOK, LockOK
<1>8. CASE StartFound(r)
  BY <1>8, GrantLeaseType, ReleaseType DEF StartFound, TypeOK, LockOK
<1>9. CASE StartOnDemand(r)
  BY <1>1, <1>9, BeginStartType DEF StartOnDemand
<1>10. CASE Finish(r)
  BY <1>1, <1>2, <1>10, GotoType DEF Finish, TypeOK
<1> QED
  BY <1>1, <1>3, <1>4, <1>5, <1>6, <1>7, <1>8, <1>9, <1>10, StartingType, TerminatingType
     DEF RequestStep

LEMMA CancelType ==
    ASSUME TypeOK, NEW r \in Requests, CancelWaiting(r) \/ CancelStart(r) \/ CancelTeardown(r)
    PROVE  TypeOK'
<1>1. r \in Tasks /\ r \in Tasks \ Procs /\ "idle" \in LabelsOf(r)
  BY LabelKinds, TasksAssumption DEF Tasks, RequestLabels
<1>2. CASE CancelWaiting(r)
  BY <1>1, <1>2, GotoType, UnlockType DEF CancelWaiting, TypeOK, LockOK
<1>3. CASE CancelStart(r)
  BY <1>1, <1>3, EnterTerminateType DEF CancelStart, TypeOK
<1>4. CASE CancelTeardown(r)
  BY <1>1, <1>4, GotoType, ReleaseType DEF CancelTeardown, TypeOK, LockOK
<1> QED
  BY <1>2, <1>3, <1>4

LEMMA SupervisorType ==
    ASSUME TypeOK, NEW s \in Supervisors, SupervisorStep(s)
    PROVE  TypeOK'
<1>1. /\ s \in Tasks /\ s \in Requests \cup Supervisors /\ s \in Tasks \ Procs
      /\ SupervisorLabels \subseteq LabelsOf(s)
  BY LabelKinds, TasksAssumption DEF Tasks
<1>2. \A label \in {"qTop", "sleep", "qAgain", "done"} : label \in LabelsOf(s)
  BY <1>1 DEF SupervisorLabels
<1>3. CASE AwaitTop(s)
  BY <1>1, <1>2, <1>3, WaitType DEF AwaitTop
<1>4. CASE Reserve(s)
  BY <1>1, <1>2, <1>4, GotoType, ReleaseType DEF Reserve, TypeOK, LockOK
<1>5. CASE AwaitRestart(s)
  BY <1>1, <1>2, <1>5, WaitType DEF AwaitRestart
<1>6. CASE Restart(s)
  BY <1>1, <1>6, BeginStartType DEF Restart, TypeOK
<1>7. CASE GiveUp(s)
  BY <1>1, <1>2, <1>7, GotoType, ReleaseType DEF GiveUp, TypeOK, LockOK
<1> QED
  BY <1>1, <1>3, <1>4, <1>5, <1>6, <1>7, StartingType, TerminatingType DEF SupervisorStep

LEMMA MonitorType ==
    ASSUME TypeOK, NEW p \in Procs, MonitorStep(p) \/ Exit(p)
    PROVE  TypeOK'
<1>1. p \in Tasks /\ MonitorLabels \subseteq LabelsOf(p)
  BY LabelKinds DEF Tasks
<1>2. \A label \in {"qMonitor", "mLogs", "done"} : label \in LabelsOf(p)
  BY <1>1 DEF MonitorLabels
<1>3. CASE AwaitMonitor(p)
  BY <1>1, <1>2, <1>3, WaitType DEF AwaitMonitor
<1>4. CASE MonitorStale(p)
  BY <1>1, <1>2, <1>4, GotoType, ReleaseType DEF MonitorStale, TypeOK, LockOK
<1>5. CASE MonitorClears(p)
  BY <1>1, <1>2, <1>5, GotoType DEF MonitorClears, TypeOK, Hold
<1>6. CASE MonitorEnds(p)
  <2> DEFINE pcs == [pc EXCEPT ![p] = "done"]
  <2>1. PcOK(pcs)
    BY <1>1, <1>2, PcExcept DEF TypeOK
  <2>2. /\ PcOK(pc') /\ restartTask' \in Supervisors \cup {None} /\ state' \in States
    <3>1. CASE state \in {"DRAINING", "STOPPED"}
      BY <1>6, <2>1, <3>1 DEF MonitorEnds, TypeOK
    <3>2. CASE state \notin {"DRAINING", "STOPPED"}
      <4>1. Schedule(pcs, policy) /\ state' = "FAILED"
        BY <1>6, <3>2 DEF MonitorEnds
      <4> QED
        BY <2>1, <4>1, ScheduleType DEF States
    <3> QED
      BY <3>1, <3>2
  <2>3. LockOK'
    BY <1>6, ReleaseType DEF MonitorEnds, TypeOK, LockOK
  <2> QED
    BY <1>6, <2>2, <2>3 DEF MonitorEnds, TypeOK, LockOK
<1>7. CASE Exit(p)
  BY <1>7 DEF Exit, TypeOK
<1> QED
  BY <1>3, <1>4, <1>5, <1>6, <1>7 DEF MonitorStep

LEMMA CheckerType ==
    ASSUME TypeOK, CheckerStep \/ TimePasses
    PROVE  TypeOK'
<1>1. /\ Checker \in Tasks /\ Checker \in Tasks \ Procs
      /\ \A label \in CheckerLabels : label \in LabelsOf(Checker)
  BY LabelKinds, TasksAssumption DEF Tasks
<1>2. /\ "cSleep" \in LabelsOf(Checker) /\ "qSweep" \in LabelsOf(Checker)
      /\ "qStop" \in LabelsOf(Checker)
  BY <1>1 DEF CheckerLabels
<1>3. CASE AwaitSweep
  BY <1>1, <1>2, <1>3, WaitType DEF AwaitSweep
<1>4. CASE SweepSkips
  BY <1>1, <1>2, <1>4, GotoType, ReleaseType DEF SweepSkips, TypeOK, LockOK
<1>5. CASE SweepDrains
  <2>1. CASE waiters = <<>>
    BY <1>1, <1>5, <2>1, EnterTerminateType DEF SweepDrains, States
  <2>2. CASE waiters # <<>>
    <3>1. Head(waiters) \in Tasks /\ Append(Tail(waiters), Checker) \in Seq(Tasks)
      BY <1>1, <2>2, HeadTailProperties, AppendProperties DEF TypeOK
    <3>2. PcOK(pc')
      BY <1>1, <1>2, <1>5, <2>2, GotoType DEF SweepDrains
    <3> QED
      BY <1>5, <2>2, <3>1, <3>2 DEF SweepDrains, TypeOK, States
  <2> QED
    BY <2>1, <2>2
<1>6. CASE SweepStops
  BY <1>1, <1>6, EnterTerminateType DEF SweepStops, TypeOK
<1>7. CASE TimePasses
  BY <1>7 DEF TimePasses, TypeOK
<1> QED
  BY <1>1, <1>3, <1>4, <1>5, <1>6, <1>7, TerminatingType DEF CheckerStep

LEMMA DrainingType ==
    ASSUME TypeOK, NEW t \in {Reload, Main}, Draining(t)
    PROVE  TypeOK'
<1>1. /\ t \in Tasks /\ t \in Tasks \ Procs
      /\ DrainLabels \subseteq LabelsOf(t)
  BY LabelKinds, TasksAssumption DEF Tasks, ReloadLabels, MainLabels
<1>2. "qMark" \in LabelsOf(t) /\ "dWait" \in LabelsOf(t) /\ "qDrain" \in LabelsOf(t)
  BY <1>1 DEF DrainLabels
<1>3. CASE AwaitMark(t)
  BY <1>1, <1>2, <1>3, WaitType DEF AwaitMark
<1>4. CASE MarkDraining(t)
  BY <1>1, <1>2, <1>4, GotoType, ReleaseType DEF MarkDraining, TypeOK, LockOK, States
<1>5. CASE AwaitDrained(t)
  BY <1>1, <1>2, <1>5, WaitType DEF AwaitDrained
<1>6. CASE Drained(t)
  BY <1>1, <1>6, EnterTerminateType DEF Drained, TypeOK
<1> QED
  BY <1>3, <1>4, <1>5, <1>6 DEF Draining

LEMMA ReloadType ==
    ASSUME TypeOK, ReloadStep \/ Reconfigure
    PROVE  TypeOK'
<1>1. Reload \in Tasks /\ Reload \in Tasks \ Procs /\ "watch" \in LabelsOf(Reload)
  BY LabelKinds, TasksAssumption DEF Tasks, ReloadLabels
<1>2. CASE Publish
  BY <1>1, <1>2, GotoType DEF Publish, TypeOK
<1>3. CASE Reconfigure
  <2>1. PICK budget \in Budgets :
          /\ policy' = budget
          /\ IF state = "FAILED" THEN Schedule(pc, budget) ELSE UNCHANGED <<pc, restartTask>>
    BY <1>3 DEF Reconfigure
  <2>2. PcOK(pc') /\ restartTask' \in Supervisors \cup {None}
    <3>1. CASE state = "FAILED"
      <4>1. PcOK(pc) /\ Schedule(pc, budget)
        BY <2>1, <3>1 DEF TypeOK
      <4> QED
        BY <4>1, ScheduleType
    <3>2. CASE state # "FAILED"
      BY <2>1, <3>2 DEF TypeOK
    <3> QED
      BY <3>1, <3>2
  <2> QED
    BY <1>3, <2>1, <2>2 DEF Reconfigure, TypeOK
<1> QED
  BY <1>1, <1>2, <1>3, DrainingType, TerminatingType DEF ReloadStep

LEMMA MainType ==
    ASSUME TypeOK, MainStep \/ BeginShutdown
    PROVE  TypeOK'
<1>1. /\ Main \in Tasks /\ Main \in Tasks \ Procs /\ Checker \in Tasks /\ Reload \in Tasks
      /\ "joined" \in LabelsOf(Main) /\ "stopped" \in LabelsOf(Main) /\ "down" \in LabelsOf(Main)
      /\ "done" \in LabelsOf(Checker) /\ "done" \in LabelsOf(Reload)
  BY LabelKinds, TasksAssumption DEF Tasks, ReloadLabels, CheckerLabels, MainLabels
<1>2. CASE StopWatcher
  <2>1. PcOK(pc') /\ LockOK'
    BY <1>1, <1>2, PcExcept2, UnlockType DEF StopWatcher, TypeOK, LockOK
  <2> QED
    BY <1>2, <2>1 DEF StopWatcher, TypeOK, LockOK
<1>3. CASE NothingToClean
  BY <1>1, <1>3, GotoType DEF NothingToClean, TypeOK
<1>4. CASE BeginShutdown
  <2>1. PcOK(pc') /\ LockOK'
    BY <1>1, <1>4, PcExcept2, UnlockType DEF BeginShutdown, TypeOK, LockOK
  <2> QED
    BY <1>4, <2>1 DEF BeginShutdown, TypeOK, LockOK
<1> QED
  BY <1>1, <1>2, <1>3, <1>4, DrainingType, TerminatingType DEF MainStep

LEMMA InitType == Init => TypeOK
<1> SUFFICES ASSUME Init PROVE TypeOK
  OBVIOUS
<1>1. ASSUME NEW t \in Tasks PROVE pc[t] \in LabelsOf(t)
  <2>1. CASE t \in Requests
    BY <2>1, LabelKinds, TasksAssumption DEF Init, RequestLabels
  <2>2. CASE t \in Supervisors
    BY <2>2, LabelKinds, TasksAssumption DEF Init, SupervisorLabels
  <2>3. CASE t \in Procs
    BY <2>3, LabelKinds, TasksAssumption DEF Init, MonitorLabels
  <2>4. CASE t = Checker
    BY <2>4, LabelKinds, TasksAssumption DEF Init, CheckerLabels
  <2>5. CASE t = Reload
    BY <2>5, LabelKinds, TasksAssumption DEF Init, ReloadLabels
  <2>6. CASE t = Main
    BY <2>6, LabelKinds, TasksAssumption DEF Init, MainLabels
  <2> QED
    BY <2>1, <2>2, <2>3, <2>4, <2>5, <2>6 DEF Tasks
<1>2. pc \in [Tasks -> Labels]
  BY <1>1, LabelsAreLabels DEF Init
<1> QED
  BY <1>1, <1>2, EmptySeq DEF Init, TypeOK, PcOK, States

LEMMA NextType == TypeOK /\ [Next]_vars => TypeOK'
<1> SUFFICES ASSUME TypeOK, [Next]_vars PROVE TypeOK'
  OBVIOUS
<1>1. CASE Running
  BY <1>1, RequestType, CancelType, SupervisorType, MonitorType, CheckerType, ReloadType,
     MainType DEF Running
<1>2. CASE UNCHANGED vars
  BY <1>2 DEF vars, TypeOK
<1> QED
  BY <1>1, <1>2 DEF Next

(* Every variable keeps its type, and every task waits only where its      *)
(* coroutine has an await.                                                 *)
THEOREM TypeCorrect == Spec => []TypeOK
BY InitType, NextType, PTL DEF Spec

(***************************************************************************)
(* One restart loop                                                        *)
(***************************************************************************)

LEMMA ScheduleOneSupervisor ==
    ASSUME TypeOK, OneSupervisor, NEW budget, NEW pcs, PcOK(pcs),
           \A s \in Supervisors : pcs[s] = "done" <=> pc[s] = "done",
           Schedule(pcs, budget)
    PROVE  OneSupervisor'
<1>1. CASE attempts < budget /\ ~Recovering
  <2>1. PICK s \in Supervisors : restartTask' = s /\ pc' = [pcs EXCEPT ![s] = "top"]
    BY <1>1 DEF Schedule
  <2>2. \A x \in Supervisors : pc[x] = "done"
    BY <1>1, TasksAssumption DEF Recovering, OneSupervisor, Tasks
  <2> QED
    BY <2>1, <2>2 DEF OneSupervisor, PcOK
<1>2. CASE ~(attempts < budget /\ ~Recovering)
  BY <1>2 DEF Schedule, OneSupervisor
<1> QED
  BY <1>1, <1>2

LEMMA BeginStartOneSupervisor ==
    ASSUME TypeOK, OneSupervisor, NEW t \in Requests \cup Supervisors, BeginStart(t),
           t \in Supervisors => pc[t] # "done"
    PROVE  OneSupervisor'
BY TasksAssumption DEF BeginStart, OneSupervisor, Tasks

LEMMA EnterTerminateOneSupervisor ==
    ASSUME TypeOK, OneSupervisor, NEW t \in Tasks, NEW target, EnterTerminate(t, target),
           t \in Supervisors => pc[t] # "done"
    PROVE  OneSupervisor'
BY TasksAssumption DEF EnterTerminate, OneSupervisor, Tasks

(* The end of a monitor leaves the other tasks where they are. *)
LEMMA MonitorDone ==
    ASSUME TypeOK, NEW p \in Procs
    PROVE  /\ PcOK([pc EXCEPT ![p] = "done"])
           /\ \A t \in Tasks \ Procs : [pc EXCEPT ![p] = "done"][t] = pc[t]
<1>1. "done" \in LabelsOf(p) /\ p \in Tasks
  BY LabelKinds DEF MonitorLabels, Tasks
<1>2. PcOK([pc EXCEPT ![p] = "done"])
  BY <1>1, PcExcept DEF TypeOK
<1>3. \A t \in Tasks \ Procs : [pc EXCEPT ![p] = "done"][t] = pc[t]
  BY DEF TypeOK, PcOK
<1> QED
  BY <1>2, <1>3

LEMMA NextOneSupervisor == TypeOK /\ OneSupervisor /\ [Next]_vars => OneSupervisor'
<1> SUFFICES ASSUME TypeOK, OneSupervisor, [Next]_vars PROVE OneSupervisor'
  OBVIOUS
<1> USE TasksAssumption
<1> USE DEF Tasks, TypeOK, PcOK, OneSupervisor, Goto, Wait, GrantLease
<1>1. ASSUME NEW r \in Requests, RequestStep(r) \/ Capture(r) \/ Finish(r)
                                  \/ CancelWaiting(r) \/ CancelTeardown(r),
             ~Starting(r), ~Terminating(r), ~StartOnDemand(r)
      PROVE  OneSupervisor'
  BY <1>1 DEF RequestStep, Capture, Finish, CancelWaiting, CancelTeardown, Reject,
              AcquireLease, AwaitStart, StartRefused, StartFound
<1>2. ASSUME NEW r \in Requests, StartOnDemand(r) PROVE OneSupervisor'
  BY <1>2, BeginStartOneSupervisor DEF StartOnDemand
<1>3. ASSUME NEW r \in Requests, CancelStart(r) PROVE OneSupervisor'
  BY <1>3, EnterTerminateOneSupervisor DEF CancelStart
<1>4. ASSUME NEW t \in Requests \cup Supervisors, Starting(t) PROVE OneSupervisor'
  <2>1. CASE Spawn(t)
    BY <2>1 DEF Spawn
  <2>2. CASE PortOpen(t)
    BY <2>2 DEF PortOpen
  <2>3. CASE Ready(t)
    BY <2>3 DEF Ready
  <2>4. CASE StartFails(t)
    BY <2>4, EnterTerminateOneSupervisor DEF StartFails, StartLabels
  <2> QED
    BY <1>4, <2>1, <2>2, <2>3, <2>4 DEF Starting
<1>5. ASSUME NEW t \in Tasks \ Procs, Terminating(t) PROVE OneSupervisor'
  <2>1. CASE Signal(t) \/ Kill(t) \/ Reaped(t) \/ SignalError(t)
    BY <2>1 DEF Signal, Kill, Reaped, SignalError
  <2>2. CASE Terminated(t)
    <3> DEFINE pcs == [pc EXCEPT ![t] = AfterTerminate(t)]
    <3>1. /\ t \in Supervisors => AfterTerminate(t) = "top"
          /\ pc[t] = "tLogs"
      BY <2>2 DEF AfterTerminate, Terminated
    <3>2. \A s \in Supervisors : pcs[s] = "done" <=> pc[s] = "done"
      BY <3>1
    <3>3. PcOK(pcs)
      <4>1. AfterTerminate(t) \in LabelsOf(t)
        BY LabelKinds DEF AfterTerminate, RequestLabels, SupervisorLabels, CheckerLabels,
           ReloadLabels, MainLabels
      <4> QED
        BY <4>1, PcExcept
    <3>4. CASE final = "FAILED"
      <4>1. Schedule(pcs, policy)
        BY <2>2, <3>4 DEF Terminated
      <4> QED
        BY <3>2, <3>3, <4>1, ScheduleOneSupervisor
    <3>5. CASE final # "FAILED"
      BY <2>2, <3>2, <3>5 DEF Terminated
    <3> QED
      BY <3>4, <3>5
  <2> QED
    BY <1>5, <2>1, <2>2 DEF Terminating
<1>6. ASSUME NEW s \in Supervisors, SupervisorStep(s), ~Starting(s), ~Terminating(s)
      PROVE  OneSupervisor'
  <2>1. CASE AwaitTop(s) \/ Reserve(s) \/ AwaitRestart(s)
    BY <2>1 DEF AwaitTop, Reserve, AwaitRestart, Entering
  <2>2. CASE Restart(s)
    BY <2>2, BeginStartOneSupervisor DEF Restart, Entering
  <2>3. CASE GiveUp(s)
    BY <2>3 DEF GiveUp
  <2> QED
    BY <1>6, <2>1, <2>2, <2>3 DEF SupervisorStep
<1>7. ASSUME NEW p \in Procs, MonitorStep(p) \/ Exit(p) PROVE OneSupervisor'
  <2>1. CASE AwaitMonitor(p) \/ MonitorStale(p) \/ MonitorClears(p) \/ Exit(p)
    BY <2>1 DEF AwaitMonitor, MonitorStale, MonitorClears, Exit
  <2>2. CASE MonitorEnds(p)
    <3> DEFINE pcs == [pc EXCEPT ![p] = "done"]
    <3>1. PcOK(pcs)
      <4> HIDE DEF PcOK, TypeOK, Tasks
      <4> QED
        BY MonitorDone
    <3>4. \A s \in Supervisors : pcs[s] = pc[s]
      OBVIOUS
    <3>2. CASE state \in {"DRAINING", "STOPPED"}
      BY <2>2, <3>4, <3>2 DEF MonitorEnds
    <3>3. CASE state \notin {"DRAINING", "STOPPED"}
      <4>1. Schedule(pcs, policy)
        BY <2>2, <3>3 DEF MonitorEnds
      <4> QED
        BY <3>1, <3>4, <4>1, ScheduleOneSupervisor
    <3> QED
      BY <3>2, <3>3
  <2> QED
    BY <1>7, <2>1, <2>2 DEF MonitorStep
<1>8. ASSUME CheckerStep \/ TimePasses, ~Terminating(Checker) PROVE OneSupervisor'
  <2>1. CASE AwaitSweep \/ SweepSkips \/ TimePasses
    BY <2>1 DEF AwaitSweep, SweepSkips, TimePasses
  <2>2. CASE SweepDrains
    <3>1. CASE waiters = <<>>
      BY <2>2, <3>1, EnterTerminateOneSupervisor DEF SweepDrains
    <3>2. CASE waiters # <<>>
      BY <2>2, <3>2 DEF SweepDrains
    <3> QED
      BY <3>1, <3>2
  <2>3. CASE SweepStops
    BY <2>3, EnterTerminateOneSupervisor DEF SweepStops
  <2> QED
    BY <1>8, <2>1, <2>2, <2>3 DEF CheckerStep
<1>9. ASSUME NEW t \in {Reload, Main}, Draining(t) PROVE OneSupervisor'
  <2>1. CASE AwaitMark(t) \/ MarkDraining(t) \/ AwaitDrained(t)
    BY <2>1 DEF AwaitMark, MarkDraining, AwaitDrained
  <2>2. CASE Drained(t)
    BY <2>2, EnterTerminateOneSupervisor DEF Drained
  <2> QED
    BY <1>9, <2>1, <2>2 DEF Draining
<1>10. ASSUME Publish \/ Reconfigure \/ StopWatcher \/ NothingToClean \/ BeginShutdown
       PROVE  OneSupervisor'
  <2>1. CASE Publish \/ StopWatcher \/ NothingToClean \/ BeginShutdown
    BY <2>1 DEF Publish, StopWatcher, NothingToClean, BeginShutdown
  <2>2. CASE Reconfigure
    <3>1. CASE state = "FAILED"
      <4>1. PICK budget \in Budgets : Schedule(pc, budget)
        BY <2>2, <3>1 DEF Reconfigure
      <4> QED
        BY <4>1, ScheduleOneSupervisor
    <3>2. CASE state # "FAILED"
      BY <2>2, <3>2 DEF Reconfigure
    <3> QED
      BY <3>1, <3>2
  <2> QED
    BY <1>10, <2>1, <2>2
<1>11. CASE UNCHANGED vars
  BY <1>11 DEF vars
<1>12. CASE Running
  <2>1. \A r \in Requests : r \in Requests \cup Supervisors /\ r \in Tasks \ Procs
    OBVIOUS
  <2>2. \A s \in Supervisors : s \in Requests \cup Supervisors /\ s \in Tasks \ Procs
    OBVIOUS
  <2>3. {Checker, Reload, Main} \subseteq Tasks \ Procs
    OBVIOUS
  <2> HIDE TasksAssumption DEF Tasks, TypeOK, PcOK, OneSupervisor, Goto, Wait, GrantLease
  <2> QED
    BY <1>12, <1>1, <1>2, <1>3, <1>4, <1>5, <1>6, <1>7, <1>8, <1>9, <1>10, <2>1, <2>2, <2>3
       DEF Running, ReloadStep, MainStep, CheckerStep, SupervisorStep, RequestStep
<1> QED
  BY <1>11, <1>12 DEF Next

(* However failures, reloads, cancellations and shutdown interleave, and   *)
(* with every fault included, two restart loops never act for a runtime.   *)
THEOREM SingleSupervisor == Spec => []OneSupervisor
<1>1. Init => OneSupervisor
  BY TasksAssumption DEF Init, OneSupervisor, Tasks
<1> QED
  BY <1>1, NextOneSupervisor, TypeCorrect, PTL DEF Spec


(***************************************************************************)
(* No orphan                                                               *)
(*                                                                         *)
(* NoOrphan alone is not inductive: a start is safe because nothing else   *)
(* starts while it is suspended, that is because the lock covers it.       *)
(***************************************************************************)

ProcessInv == TypeOK /\ LockCoversLifecycle /\ NoOrphan

(* Neither a teardown cut short by a second cancellation nor a signal that *)
(* cannot be sent: either leaves a process behind.                         *)
TeardownsEnd == Environment \cap {"cancel-teardown", "signal-error"} = {}

(* Whoever enters the lock finds nobody inside, and no start under way. *)
LEMMA EnterAlone ==
    ASSUME TypeOK, LockCoversLifecycle, NEW t \in Tasks, owner \in {None, t},
           pc[t] \notin HoldingLabels
    PROVE  state # "STARTING" /\ \A u \in Tasks : pc[u] \notin HoldingLabels
BY TasksAssumption DEF LockCoversLifecycle, HoldingLabels, Tasks

(* A step after which nobody is inside. *)
LEMMA NobodyInside ==
    ASSUME \A u \in Tasks : pc'[u] \notin HoldingLabels,
           state' # "STARTING",
           state' \in {"STOPPED", "FAILED"} => process' = None
    PROVE  LockCoversLifecycle'
BY DEF LockCoversLifecycle, HoldingLabels, StartLabels, TeardownLabels

(* A step of a task that stays outside, or of the world. *)
LEMMA StepOutside ==
    ASSUME LockCoversLifecycle,
           \A u \in Tasks : pc'[u] \in HoldingLabels => pc'[u] = pc[u],
           owner \in Tasks /\ pc[owner] \in HoldingLabels =>
               owner' = owner /\ pc'[owner] = pc[owner],
           state' = state, process' = process, IsRunning' => IsRunning
    PROVE  LockCoversLifecycle'
BY TasksAssumption DEF LockCoversLifecycle, HoldingLabels, StartLabels, TeardownLabels, Tasks

(* A step after which t is inside, and nobody else. *)
LEMMA OneInside ==
    ASSUME NEW t \in Tasks, owner' = t,
           \A u \in Tasks : u # t => pc'[u] \notin HoldingLabels,
           pc'[t] \in StartLabels => state' = "STARTING",
           pc'[t] \in {"spawn", "tLogs"} => ~IsRunning',
           pc'[t] = "mLogs" => process' = None,
           state' = "STARTING" =>
               t \in Requests \cup Supervisors /\ pc'[t] \in StartLabels \cup TeardownLabels,
           state' \in {"STOPPED", "FAILED"} => process' = None
    PROVE  LockCoversLifecycle'
BY DEF LockCoversLifecycle, HoldingLabels, StartLabels, TeardownLabels

LEMMA WaitProcess ==
    ASSUME ProcessInv, NEW t \in Tasks, NEW want, NEW queued, want # queued,
           Wait(t, want, queued), want \notin HoldingLabels, queued \notin HoldingLabels
    PROVE  LockCoversLifecycle' /\ NoOrphan'
<1> USE DEF ProcessInv, TypeOK, PcOK
<1>1. LockCoversLifecycle'
  BY StepOutside DEF Wait, Goto, IsRunning
<1> QED
  BY <1>1 DEF Wait, NoOrphan

(* A task that leaves the lock without having changed the runtime. *)
LEMMA LeaveProcess ==
    ASSUME ProcessInv, NEW t \in Tasks, owner \in {None, t}, pc[t] \notin HoldingLabels,
           NEW label, label \notin HoldingLabels, Goto(t, label),
           UNCHANGED <<state, process, os>>
    PROVE  LockCoversLifecycle' /\ NoOrphan'
<1> USE DEF ProcessInv, TypeOK, PcOK
<1>1. state # "STARTING" /\ \A u \in Tasks : pc[u] \notin HoldingLabels
  BY EnterAlone
<1>2. \A u \in Tasks : pc'[u] \notin HoldingLabels
  BY <1>1 DEF Goto
<1>3. state \in {"STOPPED", "FAILED"} => process = None
  BY DEF LockCoversLifecycle
<1>4. LockCoversLifecycle'
  BY <1>1, <1>2, <1>3, NobodyInside
<1> QED
  BY <1>4 DEF NoOrphan

LEMMA ScheduleOutside ==
    ASSUME NEW pcs, PcOK(pcs), NEW budget, Schedule(pcs, budget), NEW t \in Tasks
    PROVE  pc'[t] \in {pcs[t], "top"} /\ (t \notin Supervisors => pc'[t] = pcs[t])
BY DEF Schedule, PcOK

LEMMA BeginStartProcess ==
    ASSUME ProcessInv, NEW t \in Requests \cup Supervisors, owner \in {None, t},
           pc[t] \notin HoldingLabels, BeginStart(t)
    PROVE  LockCoversLifecycle' /\ NoOrphan'
<1> USE DEF ProcessInv, TypeOK, PcOK
<1>1. t \in Tasks
  BY DEF Tasks
<1>2. state # "STARTING" /\ \A u \in Tasks : pc[u] \notin HoldingLabels
  BY <1>1, EnterAlone
<1>3. ~IsRunning
  BY <1>2 DEF BeginStart, States, LockCoversLifecycle, IsRunning
<1>4. \A u \in Tasks : u # t => pc'[u] \notin HoldingLabels
  BY <1>2 DEF BeginStart, HoldingLabels, StartLabels, TeardownLabels
<1>5. pc'[t] = "spawn" /\ owner' = t /\ state' = "STARTING" /\ ~IsRunning'
  BY <1>1, <1>3 DEF BeginStart, IsRunning
<1>6. LockCoversLifecycle'
  BY <1>1, <1>4, <1>5, OneInside DEF StartLabels
<1> QED
  BY <1>6 DEF BeginStart, NoOrphan

(* A termination entered from outside, or from a start that failed. *)
LEMMA EnterTerminateProcess ==
    ASSUME ProcessInv, NEW t \in Tasks, NEW target, EnterTerminate(t, target),
           \A u \in Tasks : u # t => pc[u] \notin HoldingLabels,
           state' \in {"STOPPED", "FAILED"} => process = None,
           state' = "STARTING" => t \in Requests \cup Supervisors
    PROVE  LockCoversLifecycle' /\ NoOrphan'
<1> USE DEF ProcessInv, TypeOK, PcOK
<1>1. \A u \in Tasks : u # t => pc'[u] \notin HoldingLabels
  BY DEF EnterTerminate, HoldingLabels, StartLabels, TeardownLabels
<1>2. pc'[t] = "tTasks" /\ owner' = t /\ process' = process
  BY DEF EnterTerminate
<1>3. LockCoversLifecycle'
  BY <1>1, <1>2, OneInside DEF StartLabels, TeardownLabels
<1> QED
  BY <1>3 DEF EnterTerminate, NoOrphan

(* Whoever is inside is there alone. *)
LEMMA InsideAlone ==
    ASSUME LockCoversLifecycle, NEW t \in Tasks, pc[t] \in HoldingLabels
    PROVE  owner = t /\ \A u \in Tasks : u # t => pc[u] \notin HoldingLabels
BY DEF LockCoversLifecycle


LEMMA StartingProcess ==
    ASSUME ProcessInv, NEW t \in Requests \cup Supervisors, Starting(t)
    PROVE  LockCoversLifecycle' /\ NoOrphan'
<1> USE DEF ProcessInv, TypeOK, PcOK
<1>1. t \in Tasks /\ t \notin Procs
  BY TasksAssumption DEF Tasks
<1>2. pc[t] \in StartLabels
  BY DEF Starting, Spawn, PortOpen, Ready, StartFails, StartLabels
<1>3. owner = t /\ \A u \in Tasks : u # t => pc[u] \notin HoldingLabels
  BY <1>1, <1>2, InsideAlone DEF HoldingLabels
<1>4. state = "STARTING"
  BY <1>1, <1>2 DEF LockCoversLifecycle
<1>5. CASE Spawn(t)
  <2>1. ~IsRunning
    BY <1>1, <1>5 DEF Spawn, LockCoversLifecycle
  <2>2. PICK p \in Procs : /\ os' = [os EXCEPT ![p] = "alive"]
                           /\ process' = p
                           /\ pc' = [pc EXCEPT ![t] = "port", ![p] = "mWait"]
    BY <1>5 DEF Spawn
  <2>3. NoOrphan'
    BY <2>1, <2>2, TasksAssumption DEF NoOrphan, IsRunning, Tasks
  <2>4. p \in Tasks /\ p # t
    BY <1>1 DEF Tasks
  <2>5. pc'[t] = "port" /\ pc'[p] = "mWait" /\ \A u \in Tasks \ {t, p} : pc'[u] = pc[u]
    BY <1>1, <2>2, <2>4
  <2>6. \A u \in Tasks : u # t => pc'[u] \notin HoldingLabels
    BY <1>3, <2>5 DEF HoldingLabels, StartLabels, TeardownLabels
  <2>7. owner' = t /\ state' = "STARTING"
    BY <1>3, <1>4, <1>5 DEF Spawn
  <2>8. LockCoversLifecycle'
    BY <1>1, <2>5, <2>6, <2>7, OneInside DEF StartLabels
  <2> QED
    BY <2>3, <2>8
<1>6. CASE PortOpen(t)
  <2>1. LockCoversLifecycle'
    BY <1>1, <1>3, <1>4, <1>6, OneInside DEF PortOpen, Goto, StartLabels
  <2> QED
    BY <1>6, <2>1 DEF PortOpen, NoOrphan
<1>7. CASE Ready(t)
  <2>1. \A u \in Tasks : pc'[u] \notin HoldingLabels
    BY <1>1, <1>3, <1>7 DEF Ready, GrantLease, Goto, HoldingLabels, StartLabels, TeardownLabels
  <2>2. state' = "RUNNING"
    BY <1>7 DEF Ready
  <2>3. LockCoversLifecycle'
    BY <2>1, <2>2, NobodyInside
  <2> QED
    BY <1>7, <2>3 DEF Ready, NoOrphan
<1>8. CASE StartFails(t)
  BY <1>1, <1>3, <1>4, <1>8, EnterTerminateProcess DEF StartFails
<1> QED
  BY <1>5, <1>6, <1>7, <1>8 DEF Starting

LEMMA TerminatingProcess ==
    ASSUME ProcessInv, TeardownsEnd, NEW t \in Tasks \ Procs, Terminating(t)
    PROVE  LockCoversLifecycle' /\ NoOrphan'
<1> USE DEF ProcessInv, TypeOK, PcOK
<1>1. pc[t] \in TeardownLabels
  BY DEF Terminating, Signal, Kill, Reaped, SignalError, Terminated, TeardownLabels
<1>2. owner = t /\ \A u \in Tasks : u # t => pc[u] \notin HoldingLabels
  BY <1>1, InsideAlone DEF HoldingLabels
<1>3. state = "STARTING" => t \in Requests \cup Supervisors
  BY <1>2 DEF LockCoversLifecycle
<1>4. state \in {"STOPPED", "FAILED"} => process = None
  BY DEF LockCoversLifecycle
<1>5. CASE Signal(t) \/ Kill(t) \/ Reaped(t)
  <2>1. /\ owner' = owner /\ state' = state /\ process' = process /\ os' = os
        /\ \A u \in Tasks : u # t => pc'[u] = pc[u]
    BY <1>5 DEF Signal, Kill, Reaped, Goto
  <2>2. pc'[t] \in {"tTerm", "tKill"} \/ (pc'[t] = "tLogs" /\ ~IsRunning)
    BY <1>5 DEF Signal, Kill, Reaped, Goto
  <2>3. LockCoversLifecycle'
    BY <1>2, <1>3, <1>4, <2>1, <2>2, OneInside DEF StartLabels, TeardownLabels, IsRunning
  <2> QED
    BY <2>1, <2>3 DEF NoOrphan
<1>6. CASE SignalError(t)
  BY <1>6 DEF SignalError, TeardownsEnd
<1>7. CASE Terminated(t)
  <2> DEFINE pcs == [pc EXCEPT ![t] = AfterTerminate(t)]
  <2>1. pc[t] = "tLogs" /\ process' = None /\ state' = final /\ os' = os
    BY <1>7 DEF Terminated
  <2>2. ~IsRunning
    BY <2>1 DEF LockCoversLifecycle
  <2>3. NoOrphan'
    BY <2>1, <2>2, TasksAssumption DEF NoOrphan, IsRunning, Tasks
  <2>4. AfterTerminate(t) \in {"idle", "top", "cSleep", "publish", "down"}
    BY TasksAssumption DEF AfterTerminate, Tasks
  <2>5. \A u \in Tasks : pcs[u] \notin HoldingLabels
    BY <1>2, <2>4 DEF HoldingLabels, StartLabels, TeardownLabels
  <2>6. \A u \in Tasks : pc'[u] \in {pcs[u], "top"}
    BY <1>7 DEF Terminated, Schedule
  <2>7. \A u \in Tasks : pc'[u] \notin HoldingLabels
    BY <2>5, <2>6 DEF HoldingLabels, StartLabels, TeardownLabels
  <2>8. LockCoversLifecycle'
    BY <2>1, <2>7, NobodyInside
  <2> QED
    BY <2>3, <2>8
<1> QED
  BY <1>5, <1>6, <1>7 DEF Terminating

LEMMA EnteringOutside ==
    ASSUME NEW t \in Tasks, NEW want, NEW queued, Entering(t, want, queued),
           want \notin HoldingLabels, queued \notin HoldingLabels
    PROVE  owner \in {None, t} /\ pc[t] \notin HoldingLabels
BY DEF Entering

LEMMA RequestProcess ==
    ASSUME ProcessInv, TeardownsEnd, NEW r \in Requests,
           \/ RequestStep(r) \/ Capture(r) \/ Finish(r)
           \/ CancelWaiting(r) \/ CancelStart(r) \/ CancelTeardown(r)
    PROVE  LockCoversLifecycle' /\ NoOrphan'
<1> USE DEF ProcessInv, TypeOK, PcOK
<1>1. r \in Tasks /\ r \in Tasks \ Procs /\ r \in Requests \cup Supervisors
  BY TasksAssumption DEF Tasks
<1>2. \A label \in {"idle", "captured", "qStart", "leased"} : label \notin HoldingLabels
  BY DEF HoldingLabels, StartLabels, TeardownLabels
<1>3. EnterStart(r) => owner \in {None, r} /\ pc[r] \notin HoldingLabels
  BY <1>1, <1>2, EnteringOutside DEF EnterStart
<1>4. CASE Capture(r) \/ Reject(r) \/ AcquireLease(r) \/ Finish(r)
  <2>1. /\ pc[r] \notin HoldingLabels /\ pc'[r] \notin HoldingLabels
        /\ \A u \in Tasks : u # r => pc'[u] = pc[u]
        /\ UNCHANGED <<state, process, os, owner>>
    BY <1>1, <1>2, <1>4 DEF Capture, Reject, AcquireLease, Finish, GrantLease, Goto
  <2>2. LockCoversLifecycle'
    BY <2>1, StepOutside DEF IsRunning
  <2> QED
    BY <2>1, <2>2 DEF NoOrphan
<1>5. CASE AwaitStart(r)
  BY <1>1, <1>2, <1>5, WaitProcess DEF AwaitStart
<1>6. CASE StartRefused(r)
  BY <1>1, <1>2, <1>3, <1>6, LeaveProcess DEF StartRefused
<1>7. CASE StartFound(r)
  BY <1>1, <1>2, <1>3, <1>7, LeaveProcess DEF StartFound, GrantLease
<1>8. CASE StartOnDemand(r)
  BY <1>1, <1>3, <1>8, BeginStartProcess DEF StartOnDemand
<1>9. CASE CancelWaiting(r)
  <2>1. /\ pc[r] \notin HoldingLabels /\ Goto(r, "idle")
        /\ UNCHANGED <<state, process, os>>
    BY <1>2, <1>9 DEF CancelWaiting
  <2>2. CASE owner = r
    BY <1>1, <1>2, <2>1, <2>2, LeaveProcess
  <2>3. CASE owner # r
    <3>1. owner' = owner
      BY <1>9, <2>3 DEF CancelWaiting, Unlock
    <3>2. LockCoversLifecycle'
      BY <1>2, <2>1, <2>3, <3>1, StepOutside DEF Goto, IsRunning
    <3> QED
      BY <2>1, <3>2 DEF NoOrphan
  <2> QED
    BY <2>2, <2>3
<1>10. CASE CancelStart(r)
  <2>1. /\ pc[r] \in HoldingLabels /\ EnterTerminate(r, "STOPPED")
        /\ state' = state
    BY <1>10 DEF CancelStart, HoldingLabels
  <2> QED
    BY <1>1, <2>1, InsideAlone, EnterTerminateProcess DEF LockCoversLifecycle
<1>11. CASE CancelTeardown(r)
  BY <1>11 DEF CancelTeardown, TeardownsEnd
<1> QED
  BY <1>1, <1>4, <1>5, <1>6, <1>7, <1>8, <1>9, <1>10, <1>11, StartingProcess,
     TerminatingProcess DEF RequestStep

LEMMA SupervisorProcess ==
    ASSUME ProcessInv, TeardownsEnd, NEW s \in Supervisors, SupervisorStep(s)
    PROVE  LockCoversLifecycle' /\ NoOrphan'
<1> USE DEF ProcessInv
<1>1. s \in Tasks /\ s \in Tasks \ Procs /\ s \in Requests \cup Supervisors
  BY TasksAssumption DEF Tasks
<1>2. \A label \in {"top", "qTop", "sleep", "qAgain", "done"} : label \notin HoldingLabels
  BY DEF HoldingLabels, StartLabels, TeardownLabels
<1>3. Entering(s, "top", "qTop") \/ Entering(s, "sleep", "qAgain") =>
        owner \in {None, s} /\ pc[s] \notin HoldingLabels
  BY <1>1, <1>2, EnteringOutside
<1>4. CASE AwaitTop(s) \/ AwaitRestart(s)
  BY <1>1, <1>2, <1>4, WaitProcess DEF AwaitTop, AwaitRestart
<1>5. CASE Reserve(s)
  BY <1>1, <1>2, <1>3, <1>5, LeaveProcess DEF Reserve
<1>6. CASE Restart(s)
  BY <1>1, <1>3, <1>6, BeginStartProcess DEF Restart
<1>7. CASE GiveUp(s)
  BY <1>1, <1>2, <1>3, <1>7, LeaveProcess DEF GiveUp
<1> QED
  BY <1>1, <1>4, <1>5, <1>6, <1>7, StartingProcess, TerminatingProcess DEF SupervisorStep


LEMMA MonitorProcess ==
    ASSUME ProcessInv, NEW p \in Procs, MonitorStep(p) \/ Exit(p)
    PROVE  LockCoversLifecycle' /\ NoOrphan'
<1> USE DEF ProcessInv, TypeOK, PcOK
<1>1. p \in Tasks /\ p \notin Requests \cup Supervisors
  BY TasksAssumption DEF Tasks
<1>2. \A label \in {"mWait", "qMonitor", "done"} : label \notin HoldingLabels
  BY DEF HoldingLabels, StartLabels, TeardownLabels
<1>3. EnterMonitor(p) => owner \in {None, p} /\ pc[p] \notin HoldingLabels
  BY <1>1, <1>2, EnteringOutside DEF EnterMonitor
<1>4. CASE AwaitMonitor(p)
  BY <1>1, <1>2, <1>4, WaitProcess DEF AwaitMonitor
<1>5. CASE MonitorStale(p)
  BY <1>1, <1>2, <1>3, <1>5, LeaveProcess DEF MonitorStale
<1>6. CASE MonitorClears(p)
  <2>1. state # "STARTING" /\ \A u \in Tasks : pc[u] \notin HoldingLabels
    BY <1>1, <1>3, <1>6, EnterAlone DEF MonitorClears
  <2>2. process = p /\ os[p] = "dead" /\ process' = None /\ os' = os /\ state' = state
    BY <1>6 DEF MonitorClears, EnterMonitor
  <2>3. NoOrphan'
    BY <2>2 DEF NoOrphan
  <2>4. pc'[p] = "mLogs" /\ owner' = p /\ \A u \in Tasks : u # p => pc'[u] = pc[u]
    BY <1>1, <1>6 DEF MonitorClears, Goto, Hold
  <2>5. LockCoversLifecycle'
    BY <1>1, <2>1, <2>2, <2>4, OneInside DEF StartLabels
  <2> QED
    BY <2>3, <2>5
<1>7. CASE MonitorEnds(p)
  <2> DEFINE pcs == [pc EXCEPT ![p] = "done"]
  <2>1. pc[p] = "mLogs" /\ process' = process /\ os' = os
    BY <1>7 DEF MonitorEnds
  <2>2. /\ owner = p /\ process = None
        /\ \A u \in Tasks : u # p => pc[u] \notin HoldingLabels
    BY <1>1, <2>1, InsideAlone DEF LockCoversLifecycle, HoldingLabels
  <2>3. \A u \in Tasks : pcs[u] \notin HoldingLabels
    BY <1>2, <2>2
  <2>4. \A u \in Tasks : pc'[u] \in {pcs[u], "top"}
    BY <1>7 DEF MonitorEnds, Schedule
  <2>5. \A u \in Tasks : pc'[u] \notin HoldingLabels
    BY <2>3, <2>4 DEF HoldingLabels, StartLabels, TeardownLabels
  <2>6. state' # "STARTING"
    BY <1>1, <1>7, <2>2 DEF MonitorEnds, LockCoversLifecycle
  <2>7. LockCoversLifecycle'
    BY <2>1, <2>2, <2>5, <2>6, NobodyInside
  <2> QED
    BY <2>1, <2>7 DEF NoOrphan
<1>8. CASE Exit(p)
  <2>1. os' = [os EXCEPT ![p] = "dead"] /\ UNCHANGED <<state, process, pc, owner>>
    BY <1>8 DEF Exit
  <2>2. IsRunning' => IsRunning
    BY <2>1, TasksAssumption DEF IsRunning, Tasks
  <2>3. LockCoversLifecycle'
    BY <2>1, <2>2, StepOutside
  <2> QED
    BY <2>1, <2>3 DEF NoOrphan
<1> QED
  BY <1>4, <1>5, <1>6, <1>7, <1>8 DEF MonitorStep

LEMMA CheckerProcess ==
    ASSUME ProcessInv, TeardownsEnd, CheckerStep \/ TimePasses
    PROVE  LockCoversLifecycle' /\ NoOrphan'
<1> USE DEF ProcessInv, TypeOK, PcOK
<1>1. Checker \in Tasks /\ Checker \in Tasks \ Procs
  BY TasksAssumption DEF Tasks
<1>2. \A label \in {"cSleep", "qSweep", "qStop"} : label \notin HoldingLabels
  BY DEF HoldingLabels, StartLabels, TeardownLabels
<1>3. EnterSweep => owner \in {None, Checker} /\ pc[Checker] \notin HoldingLabels
  BY <1>1, <1>2, EnteringOutside DEF EnterSweep
<1>4. CASE AwaitSweep
  BY <1>1, <1>2, <1>4, WaitProcess DEF AwaitSweep
<1>5. CASE SweepSkips
  BY <1>1, <1>2, <1>3, <1>5, LeaveProcess DEF SweepSkips
<1>6. CASE SweepDrains
  <2>1. \A u \in Tasks : pc[u] \notin HoldingLabels
    BY <1>1, <1>3, <1>6, EnterAlone DEF SweepDrains
  <2>2. state' = "DRAINING"
    BY <1>6 DEF SweepDrains
  <2>3. CASE waiters = <<>>
    BY <1>1, <1>6, <2>1, <2>2, <2>3, EnterTerminateProcess DEF SweepDrains
  <2>4. CASE waiters # <<>>
    <3>1. Goto(Checker, "qStop") /\ UNCHANGED <<process, os>>
      BY <1>6, <2>4 DEF SweepDrains
    <3>2. \A u \in Tasks : pc'[u] \notin HoldingLabels
      BY <1>2, <2>1, <3>1 DEF Goto
    <3>3. LockCoversLifecycle'
      BY <2>2, <3>2, NobodyInside
    <3> QED
      BY <3>1, <3>3 DEF NoOrphan
  <2> QED
    BY <2>3, <2>4
<1>7. CASE SweepStops
  <2>1. state # "STARTING" /\ \A u \in Tasks : pc[u] \notin HoldingLabels
    BY <1>1, <1>2, <1>7, EnterAlone DEF SweepStops
  <2> QED
    BY <1>1, <1>7, <2>1, EnterTerminateProcess DEF SweepStops, LockCoversLifecycle
<1>8. CASE TimePasses
  <2>1. UNCHANGED <<state, process, os, owner, pc>>
    BY <1>8 DEF TimePasses
  <2>2. LockCoversLifecycle'
    BY <2>1, StepOutside DEF IsRunning
  <2> QED
    BY <2>1, <2>2 DEF NoOrphan
<1> QED
  BY <1>1, <1>4, <1>5, <1>6, <1>7, <1>8, TerminatingProcess DEF CheckerStep

LEMMA DrainingProcess ==
    ASSUME ProcessInv, NEW t \in {Reload, Main}, Draining(t)
    PROVE  LockCoversLifecycle' /\ NoOrphan'
<1> USE DEF ProcessInv, TypeOK, PcOK
<1>1. t \in Tasks
  BY DEF Tasks
<1>2. \A label \in {"watch", "stopped", "qMark", "dWait", "qDrain"} : label \notin HoldingLabels
  BY DEF HoldingLabels, StartLabels, TeardownLabels
<1>3. DrainBegin(t) \in {"watch", "stopped"}
  BY DEF DrainBegin
<1>4. CASE AwaitMark(t) \/ AwaitDrained(t)
  BY <1>1, <1>2, <1>3, <1>4, WaitProcess DEF AwaitMark, AwaitDrained
<1>5. CASE MarkDraining(t)
  <2>1. owner \in {None, t} /\ pc[t] \notin HoldingLabels
    BY <1>1, <1>2, <1>3, <1>5, EnteringOutside DEF MarkDraining
  <2>2. \A u \in Tasks : pc[u] \notin HoldingLabels
    BY <1>1, <2>1, EnterAlone
  <2>3. \A u \in Tasks : pc'[u] \notin HoldingLabels
    BY <1>2, <1>5, <2>2 DEF MarkDraining, Goto
  <2>4. state' = "DRAINING" /\ UNCHANGED <<process, os>>
    BY <1>5 DEF MarkDraining
  <2>5. LockCoversLifecycle'
    BY <2>3, <2>4, NobodyInside
  <2> QED
    BY <2>4, <2>5 DEF NoOrphan
<1>6. CASE Drained(t)
  <2>1. owner \in {None, t} /\ pc[t] \notin HoldingLabels
    BY <1>1, <1>2, <1>6, EnteringOutside DEF Drained
  <2>2. state # "STARTING" /\ \A u \in Tasks : pc[u] \notin HoldingLabels
    BY <1>1, <2>1, EnterAlone
  <2> QED
    BY <1>1, <1>6, <2>2, EnterTerminateProcess DEF Drained, LockCoversLifecycle
<1> QED
  BY <1>4, <1>5, <1>6 DEF Draining

(* Shutdown cancels tasks, inside the lock or outside, that start nothing. *)
LEMMA CancelledProcess ==
    ASSUME ProcessInv, NEW t \in {Checker, Reload}, Unlock(t),
           NEW label, label \notin HoldingLabels,
           pc' = [pc EXCEPT ![Main] = label, ![t] = "done"],
           pc[Main] \notin HoldingLabels,
           UNCHANGED <<state, process, os>>
    PROVE  LockCoversLifecycle' /\ NoOrphan'
<1> USE DEF ProcessInv, TypeOK, PcOK
<1>1. t \in Tasks /\ Main \in Tasks /\ t # Main /\ t \notin Requests \cup Supervisors
  BY TasksAssumption DEF Tasks
<1>2. "done" \notin HoldingLabels
  BY DEF HoldingLabels, StartLabels, TeardownLabels
<1>3. CASE owner = t
  <2>1. state # "STARTING" /\ \A u \in Tasks : u # t => pc[u] \notin HoldingLabels
    BY <1>1, <1>3 DEF LockCoversLifecycle
  <2>2. \A u \in Tasks : pc'[u] \notin HoldingLabels
    BY <1>1, <1>2, <2>1
  <2>3. LockCoversLifecycle'
    BY <2>1, <2>2, NobodyInside DEF LockCoversLifecycle
  <2> QED
    BY <2>3 DEF NoOrphan
<1>4. CASE owner # t
  <2>1. owner' = owner
    BY <1>4 DEF Unlock
  <2>2. LockCoversLifecycle'
    BY <1>1, <1>2, <1>4, <2>1, StepOutside DEF IsRunning
  <2> QED
    BY <2>2 DEF NoOrphan
<1> QED
  BY <1>3, <1>4

LEMMA GatewayProcess ==
    ASSUME ProcessInv, TeardownsEnd, ReloadStep \/ Reconfigure \/ MainStep \/ BeginShutdown
    PROVE  LockCoversLifecycle' /\ NoOrphan'
<1> USE DEF ProcessInv, TypeOK, PcOK
<1>1. {Reload, Main} \subseteq Tasks \ Procs
  BY TasksAssumption DEF Tasks
<1>2. \A label \in {"up", "joined", "stopped", "down", "watch", "publish"} :
        label \notin HoldingLabels
  BY DEF HoldingLabels, StartLabels, TeardownLabels
<1>3. CASE Publish \/ NothingToClean
  <2>1. /\ UNCHANGED <<state, process, os, owner>>
        /\ \E t \in {Reload, Main}, label \in {"watch", "down"} :
             Goto(t, label) /\ pc[t] \notin HoldingLabels
    BY <1>2, <1>3 DEF Publish, NothingToClean
  <2>2. LockCoversLifecycle'
    BY <1>1, <1>2, <2>1, StepOutside DEF Goto, IsRunning
  <2> QED
    BY <2>1, <2>2 DEF NoOrphan
<1>4. CASE Reconfigure
  <2>1. UNCHANGED <<state, process, os, owner>>
    BY <1>4 DEF Reconfigure
  <2>2. \A u \in Tasks : pc'[u] # pc[u] => u \in Supervisors /\ pc[u] = "done" /\ pc'[u] = "top"
    BY <1>4 DEF Reconfigure, Schedule
  <2>3. LockCoversLifecycle'
    BY <2>1, <2>2, StepOutside DEF IsRunning, HoldingLabels, StartLabels, TeardownLabels
  <2> QED
    BY <2>1, <2>3 DEF NoOrphan
<1>5. CASE StopWatcher
  BY <1>2, <1>5, CancelledProcess DEF StopWatcher
<1>6. CASE BeginShutdown
  BY <1>2, <1>6, CancelledProcess DEF BeginShutdown
<1> QED
  BY <1>1, <1>3, <1>4, <1>5, <1>6, DrainingProcess, TerminatingProcess DEF ReloadStep, MainStep

LEMMA NextProcess == ProcessInv /\ TeardownsEnd /\ [Next]_vars => ProcessInv'
<1> SUFFICES ASSUME ProcessInv, TeardownsEnd, [Next]_vars PROVE ProcessInv'
  OBVIOUS
<1>1. TypeOK'
  BY NextType DEF ProcessInv
<1>2. CASE Running
  BY <1>1, <1>2, RequestProcess, SupervisorProcess, MonitorProcess, CheckerProcess,
     GatewayProcess DEF Running, ProcessInv
<1>3. CASE UNCHANGED vars
  <2>1. LockCoversLifecycle'
    BY <1>3, StepOutside DEF ProcessInv, vars, IsRunning
  <2> QED
    BY <1>1, <1>3, <2>1 DEF vars, ProcessInv, NoOrphan
<1> QED
  BY <1>2, <1>3 DEF Next

LEMMA InitProcess == Init => ProcessInv
<1> SUFFICES ASSUME Init PROVE ProcessInv
  OBVIOUS
<1>1. TypeOK
  BY InitType
<1>2. \A t \in Tasks : pc[t] \notin HoldingLabels
  BY TasksAssumption DEF Init, Tasks, HoldingLabels, StartLabels, TeardownLabels
<1>3. LockCoversLifecycle
  BY <1>2 DEF Init, LockCoversLifecycle, HoldingLabels, StartLabels, TeardownLabels
<1> QED
  BY <1>1, <1>3 DEF Init, ProcessInv, NoOrphan

(* While teardowns are not cut short, the lock covers the lifecycle ...    *)
THEOREM LockCovers == ASSUME TeardownsEnd PROVE Spec => []LockCoversLifecycle
<1>1. ProcessInv /\ [Next]_vars => ProcessInv'
  BY NextProcess
<1>2. ProcessInv => LockCoversLifecycle
  BY DEF ProcessInv
<1> QED
  BY <1>1, <1>2, InitProcess, PTL DEF Spec

(* ... and so a process that the runtime does not refer to is never alive: *)
(* concurrent requests, supervisors, monitors, the idle sweep, reloads,    *)
(* cancelled starts and shutdown leave none behind.                        *)
THEOREM NoOrphanEver == ASSUME TeardownsEnd PROVE Spec => []NoOrphan
<1>1. ProcessInv /\ [Next]_vars => ProcessInv'
  BY NextProcess
<1>2. ProcessInv => NoOrphan
  BY DEF ProcessInv
<1> QED
  BY <1>1, <1>2, InitProcess, PTL DEF Spec

(***************************************************************************)
(* The lock, whatever is cut short                                         *)
(*                                                                         *)
(* A teardown that is cancelled gives the lock back and leaves STARTING    *)
(* behind; what remains of LockCoversLifecycle is who is inside, and that  *)
(* a start and the teardown of a failed one are inside STARTING.           *)
(***************************************************************************)

LockInv ==
    /\ \A t \in Tasks :
        /\ pc[t] \in HoldingLabels => owner = t
        /\ pc[t] \in StartLabels => state = "STARTING"
        /\ pc[t] = "mLogs" => process = None
    /\ \A t \in Requests \cup Supervisors : pc[t] \in TeardownLabels => state = "STARTING"

LEMMA EntersAlone ==
    ASSUME LockInv, NEW t \in Tasks, owner \in {None, t}, pc[t] \notin HoldingLabels
    PROVE  \A u \in Tasks : pc[u] \notin HoldingLabels
BY TasksAssumption DEF LockInv

LEMMA InsideIsAlone ==
    ASSUME LockInv, NEW t \in Tasks, pc[t] \in HoldingLabels
    PROVE  owner = t /\ \A u \in Tasks \ {t} : pc[u] \notin HoldingLabels
BY DEF LockInv

LEMMA NobodyHolds ==
    ASSUME \A u \in Tasks : pc'[u] \notin HoldingLabels
    PROVE  LockInv'
BY DEF LockInv, HoldingLabels, Tasks

(* A step of tasks that are and stay outside. *)
LEMMA OthersHold ==
    ASSUME LockInv,
           \A u \in Tasks : pc'[u] \in HoldingLabels =>
               pc'[u] = pc[u] /\ owner' = owner /\ state' = state /\ process' = process
    PROVE  LockInv'
BY DEF LockInv, HoldingLabels, Tasks

(* A step after which t is inside, and nobody else. *)
LEMMA OneHolds ==
    ASSUME NEW t \in Tasks, owner' = t,
           \A u \in Tasks \ {t} : pc'[u] \notin HoldingLabels,
           pc'[t] \in StartLabels => state' = "STARTING",
           pc'[t] = "mLogs" => process' = None,
           pc'[t] \in TeardownLabels /\ t \in Requests \cup Supervisors => state' = "STARTING"
    PROVE  LockInv'
BY DEF LockInv, HoldingLabels, Tasks

LEMMA WaitLock ==
    ASSUME TypeOK, LockInv, NEW t \in Tasks, NEW want, NEW queued, Wait(t, want, queued),
           queued \notin HoldingLabels
    PROVE  LockInv'
BY OthersHold DEF Wait, Goto, TypeOK, PcOK

(* t, which is about to enter, leaves at once. *)
LEMMA LeaveLock ==
    ASSUME TypeOK, LockInv, NEW t \in Tasks, owner \in {None, t}, pc[t] \notin HoldingLabels,
           NEW label, label \notin HoldingLabels, Goto(t, label)
    PROVE  LockInv'
BY EntersAlone, NobodyHolds DEF Goto, TypeOK, PcOK

(* t enters and begins a termination, or goes on with one from a start. *)
LEMMA EnterTerminateLock ==
    ASSUME TypeOK, NEW t \in Tasks, NEW target, EnterTerminate(t, target),
           \A u \in Tasks \ {t} : pc[u] \notin HoldingLabels,
           t \in Requests \cup Supervisors => state' = "STARTING"
    PROVE  LockInv'
<1> USE DEF TypeOK, PcOK
<1>1. \A u \in Tasks \ {t} : pc'[u] \notin HoldingLabels
  BY DEF EnterTerminate, HoldingLabels, StartLabels, TeardownLabels
<1>2. pc'[t] = "tTasks" /\ owner' = t
  BY DEF EnterTerminate
<1> QED
  BY <1>1, <1>2, OneHolds DEF StartLabels

LEMMA BeginStartLock ==
    ASSUME TypeOK, LockInv, NEW t \in Requests \cup Supervisors, owner \in {None, t},
           pc[t] \notin HoldingLabels, BeginStart(t)
    PROVE  LockInv'
<1> USE DEF TypeOK, PcOK
<1>1. t \in Tasks /\ \A u \in Tasks : pc[u] \notin HoldingLabels
  BY EntersAlone DEF Tasks
<1>2. \A u \in Tasks \ {t} : pc'[u] \notin HoldingLabels
  BY <1>1 DEF BeginStart, HoldingLabels, StartLabels, TeardownLabels
<1>3. pc'[t] = "spawn" /\ owner' = t /\ state' = "STARTING"
  BY <1>1 DEF BeginStart
<1> QED
  BY <1>1, <1>2, <1>3, OneHolds

LEMMA StartingLock ==
    ASSUME TypeOK, LockInv, NEW t \in Requests \cup Supervisors, Starting(t)
    PROVE  LockInv'
<1> USE DEF TypeOK, PcOK
<1>1. t \in Tasks /\ t \notin Procs /\ Procs \subseteq Tasks
  BY TasksAssumption DEF Tasks
<1>2. pc[t] \in StartLabels
  BY DEF Starting, Spawn, PortOpen, Ready, StartFails, StartLabels
<1>3. /\ state = "STARTING" /\ owner = t
      /\ \A u \in Tasks \ {t} : pc[u] \notin HoldingLabels
  BY <1>1, <1>2, InsideIsAlone DEF LockInv, HoldingLabels
<1>4. CASE Spawn(t)
  <2>1. PICK p \in Procs : pc' = [pc EXCEPT ![t] = "port", ![p] = "mWait"]
    BY <1>4 DEF Spawn
  <2>2. p \in Tasks /\ p # t
    BY <1>1
  <2>3. pc'[t] = "port" /\ pc'[p] = "mWait" /\ \A u \in Tasks \ {t, p} : pc'[u] = pc[u]
    BY <1>1, <2>1, <2>2
  <2>4. \A u \in Tasks \ {t} : pc'[u] \notin HoldingLabels
    BY <1>3, <2>3 DEF HoldingLabels, StartLabels, TeardownLabels
  <2>5. owner' = t /\ state' = "STARTING"
    BY <1>3, <1>4 DEF Spawn
  <2> QED
    BY <1>1, <2>3, <2>4, <2>5, OneHolds DEF TeardownLabels
<1>5. CASE PortOpen(t)
  BY <1>1, <1>3, <1>5, OneHolds DEF PortOpen, Goto, TeardownLabels
<1>6. CASE Ready(t)
  <2>1. \A u \in Tasks : pc'[u] \notin HoldingLabels
    BY <1>1, <1>3, <1>6 DEF Ready, GrantLease, Goto, HoldingLabels, StartLabels, TeardownLabels
  <2> QED
    BY <2>1, NobodyHolds
<1>7. CASE StartFails(t)
  BY <1>1, <1>3, <1>7, EnterTerminateLock DEF StartFails
<1> QED
  BY <1>4, <1>5, <1>6, <1>7 DEF Starting

LEMMA TerminatingLock ==
    ASSUME TypeOK, LockInv, NEW t \in Tasks \ Procs, Terminating(t)
    PROVE  LockInv'
<1> USE DEF TypeOK, PcOK
<1>1. pc[t] \in TeardownLabels
  BY DEF Terminating, Signal, Kill, Reaped, SignalError, Terminated, TeardownLabels
<1>2. owner = t /\ \A u \in Tasks \ {t} : pc[u] \notin HoldingLabels
  BY <1>1, InsideIsAlone DEF HoldingLabels
<1>3. CASE Signal(t) \/ Kill(t) \/ Reaped(t) \/ SignalError(t)
  <2>1. /\ owner' = t /\ state' = state
        /\ \A u \in Tasks \ {t} : pc'[u] = pc[u]
        /\ pc'[t] \in {"tTerm", "tKill", "tLogs"}
    BY <1>2, <1>3 DEF Signal, Kill, Reaped, SignalError, Goto
  <2>2. t \in Requests \cup Supervisors => state = "STARTING"
    BY <1>1 DEF LockInv
  <2> QED
    BY <1>2, <2>1, <2>2, OneHolds DEF StartLabels
<1>4. CASE Terminated(t)
  <2> DEFINE pcs == [pc EXCEPT ![t] = AfterTerminate(t)]
  <2>1. AfterTerminate(t) \in {"idle", "top", "cSleep", "publish", "down"}
    BY TasksAssumption DEF AfterTerminate, Tasks
  <2>2. \A u \in Tasks : pcs[u] \notin HoldingLabels
    BY <1>2, <2>1 DEF HoldingLabels, StartLabels, TeardownLabels
  <2>3. \A u \in Tasks : pc'[u] \in {pcs[u], "top"}
    BY <1>4 DEF Terminated, Schedule
  <2>4. \A u \in Tasks : pc'[u] \notin HoldingLabels
    BY <2>2, <2>3 DEF HoldingLabels, StartLabels, TeardownLabels
  <2> QED
    BY <2>4, NobodyHolds
<1> QED
  BY <1>3, <1>4 DEF Terminating

LEMMA RequestLock ==
    ASSUME TypeOK, LockInv, NEW r \in Requests,
           \/ RequestStep(r) \/ Capture(r) \/ Finish(r)
           \/ CancelWaiting(r) \/ CancelStart(r) \/ CancelTeardown(r)
    PROVE  LockInv'
<1> USE DEF TypeOK, PcOK
<1>1. r \in Tasks /\ r \in Tasks \ Procs /\ r \in Requests \cup Supervisors
  BY TasksAssumption DEF Tasks
<1>2. \A label \in {"idle", "captured", "qStart", "leased"} : label \notin HoldingLabels
  BY DEF HoldingLabels, StartLabels, TeardownLabels
<1>3. EnterStart(r) => owner \in {None, r} /\ pc[r] \notin HoldingLabels
  BY <1>1, <1>2, EnteringOutside DEF EnterStart
<1>4. CASE Capture(r) \/ Reject(r) \/ AcquireLease(r) \/ Finish(r)
  <2>1. /\ pc'[r] \notin HoldingLabels
        /\ \A u \in Tasks \ {r} : pc'[u] = pc[u]
        /\ UNCHANGED <<state, process, owner>>
    BY <1>1, <1>2, <1>4 DEF Capture, Reject, AcquireLease, Finish, GrantLease, Goto
  <2> QED
    BY <2>1, OthersHold
<1>5. CASE AwaitStart(r)
  BY <1>1, <1>2, <1>5, WaitLock DEF AwaitStart
<1>6. CASE StartRefused(r)
  BY <1>1, <1>2, <1>3, <1>6, LeaveLock DEF StartRefused
<1>7. CASE StartFound(r)
  BY <1>1, <1>2, <1>3, <1>7, LeaveLock DEF StartFound, GrantLease
<1>8. CASE StartOnDemand(r)
  BY <1>1, <1>3, <1>8, BeginStartLock DEF StartOnDemand
<1>9. CASE CancelWaiting(r)
  <2>1. /\ pc[r] \notin HoldingLabels /\ Goto(r, "idle")
        /\ UNCHANGED <<state, process>>
        /\ owner # r => owner' = owner
    BY <1>2, <1>9 DEF CancelWaiting, Unlock
  <2>2. CASE owner = r
    BY <1>1, <1>2, <2>1, <2>2, LeaveLock
  <2>3. CASE owner # r
    BY <1>1, <1>2, <2>1, <2>3, OthersHold DEF Goto
  <2> QED
    BY <2>2, <2>3
<1>10. CASE CancelStart(r)
  <2>1. /\ pc[r] \in HoldingLabels /\ state = "STARTING" /\ EnterTerminate(r, "STOPPED")
        /\ state' = state
    BY <1>1, <1>10 DEF CancelStart, HoldingLabels, LockInv
  <2> QED
    BY <1>1, <2>1, InsideIsAlone, EnterTerminateLock
<1>11. CASE CancelTeardown(r)
  <2>1. pc[r] \in HoldingLabels /\ Goto(r, "idle")
    BY <1>11 DEF CancelTeardown, HoldingLabels
  <2>2. \A u \in Tasks : pc'[u] \notin HoldingLabels
    BY <1>1, <1>2, <2>1, InsideIsAlone DEF Goto
  <2> QED
    BY <2>2, NobodyHolds
<1> QED
  BY <1>1, <1>4, <1>5, <1>6, <1>7, <1>8, <1>9, <1>10, <1>11, StartingLock, TerminatingLock
     DEF RequestStep

LEMMA SupervisorLock ==
    ASSUME TypeOK, LockInv, NEW s \in Supervisors, SupervisorStep(s)
    PROVE  LockInv'
<1>1. s \in Tasks /\ s \in Tasks \ Procs /\ s \in Requests \cup Supervisors
  BY TasksAssumption DEF Tasks
<1>2. \A label \in {"top", "qTop", "sleep", "qAgain", "done"} : label \notin HoldingLabels
  BY DEF HoldingLabels, StartLabels, TeardownLabels
<1>3. Entering(s, "top", "qTop") \/ Entering(s, "sleep", "qAgain") =>
        owner \in {None, s} /\ pc[s] \notin HoldingLabels
  BY <1>1, <1>2, EnteringOutside
<1>4. CASE AwaitTop(s) \/ AwaitRestart(s)
  BY <1>1, <1>2, <1>4, WaitLock DEF AwaitTop, AwaitRestart
<1>5. CASE Reserve(s) \/ GiveUp(s)
  BY <1>1, <1>2, <1>3, <1>5, LeaveLock DEF Reserve, GiveUp
<1>6. CASE Restart(s)
  BY <1>1, <1>3, <1>6, BeginStartLock DEF Restart
<1> QED
  BY <1>1, <1>4, <1>5, <1>6, StartingLock, TerminatingLock DEF SupervisorStep

LEMMA MonitorLock ==
    ASSUME TypeOK, LockInv, NEW p \in Procs, MonitorStep(p) \/ Exit(p)
    PROVE  LockInv'
<1> USE DEF TypeOK, PcOK
<1>1. p \in Tasks /\ p \notin Requests \cup Supervisors
  BY TasksAssumption DEF Tasks
<1>2. \A label \in {"mWait", "qMonitor", "done"} : label \notin HoldingLabels
  BY DEF HoldingLabels, StartLabels, TeardownLabels
<1>3. EnterMonitor(p) => owner \in {None, p} /\ pc[p] \notin HoldingLabels
  BY <1>1, <1>2, EnteringOutside DEF EnterMonitor
<1>4. CASE AwaitMonitor(p)
  BY <1>1, <1>2, <1>4, WaitLock DEF AwaitMonitor
<1>5. CASE MonitorStale(p)
  BY <1>1, <1>2, <1>3, <1>5, LeaveLock DEF MonitorStale
<1>6. CASE MonitorClears(p)
  <2>1. \A u \in Tasks : pc[u] \notin HoldingLabels
    BY <1>1, <1>3, <1>6, EntersAlone DEF MonitorClears
  <2>2. /\ pc'[p] = "mLogs" /\ owner' = p /\ process' = None
        /\ \A u \in Tasks \ {p} : pc'[u] = pc[u]
    BY <1>1, <1>6 DEF MonitorClears, Goto, Hold
  <2> QED
    BY <1>1, <2>1, <2>2, OneHolds DEF StartLabels, TeardownLabels
<1>7. CASE MonitorEnds(p)
  <2> DEFINE pcs == [pc EXCEPT ![p] = "done"]
  <2>1. \A u \in Tasks \ {p} : pc[u] \notin HoldingLabels
    BY <1>1, <1>7, InsideIsAlone DEF MonitorEnds, HoldingLabels
  <2>2. \A u \in Tasks : pc'[u] \in {pcs[u], "top"}
    BY <1>7 DEF MonitorEnds, Schedule
  <2>3. \A u \in Tasks : pc'[u] \notin HoldingLabels
    BY <1>2, <2>1, <2>2 DEF HoldingLabels, StartLabels, TeardownLabels
  <2> QED
    BY <2>3, NobodyHolds
<1>8. CASE Exit(p)
  BY <1>8, OthersHold DEF Exit
<1> QED
  BY <1>4, <1>5, <1>6, <1>7, <1>8 DEF MonitorStep

LEMMA CheckerLock ==
    ASSUME TypeOK, LockInv, CheckerStep \/ TimePasses
    PROVE  LockInv'
<1> USE DEF TypeOK, PcOK
<1>1. Checker \in Tasks /\ Checker \in Tasks \ Procs /\ Checker \notin Requests \cup Supervisors
  BY TasksAssumption DEF Tasks
<1>2. \A label \in {"cSleep", "qSweep", "qStop"} : label \notin HoldingLabels
  BY DEF HoldingLabels, StartLabels, TeardownLabels
<1>3. EnterSweep => owner \in {None, Checker} /\ pc[Checker] \notin HoldingLabels
  BY <1>1, <1>2, EnteringOutside DEF EnterSweep
<1>4. CASE AwaitSweep
  BY <1>1, <1>2, <1>4, WaitLock DEF AwaitSweep
<1>5. CASE SweepSkips
  BY <1>1, <1>2, <1>3, <1>5, LeaveLock DEF SweepSkips
<1>6. CASE SweepDrains
  <2>1. \A u \in Tasks : pc[u] \notin HoldingLabels
    BY <1>1, <1>3, <1>6, EntersAlone DEF SweepDrains
  <2>2. CASE waiters = <<>>
    BY <1>1, <1>6, <2>1, <2>2, EnterTerminateLock DEF SweepDrains
  <2>3. CASE waiters # <<>>
    BY <1>1, <1>2, <1>3, <1>6, <2>3, LeaveLock DEF SweepDrains
  <2> QED
    BY <2>2, <2>3
<1>7. CASE SweepStops
  <2>1. \A u \in Tasks : pc[u] \notin HoldingLabels
    BY <1>1, <1>2, <1>7, EntersAlone DEF SweepStops
  <2> QED
    BY <1>1, <1>7, <2>1, EnterTerminateLock DEF SweepStops
<1>8. CASE TimePasses
  BY <1>8, OthersHold DEF TimePasses
<1> QED
  BY <1>1, <1>4, <1>5, <1>6, <1>7, <1>8, TerminatingLock DEF CheckerStep

LEMMA GatewayLock ==
    ASSUME TypeOK, LockInv, ReloadStep \/ Reconfigure \/ MainStep \/ BeginShutdown
    PROVE  LockInv'
<1> USE DEF TypeOK, PcOK
<1>1. /\ {Reload, Main, Checker} \subseteq Tasks \ Procs /\ Reload # Main /\ Checker # Main
      /\ {Reload, Main} \cap (Requests \cup Supervisors) = {}
  BY TasksAssumption DEF Tasks
<1>2. \A label \in {"up", "joined", "stopped", "down", "watch", "publish", "done",
                    "qMark", "dWait", "qDrain"} : label \notin HoldingLabels
  BY DEF HoldingLabels, StartLabels, TeardownLabels
<1>3. ASSUME NEW t \in {Reload, Main}, Draining(t)
      PROVE  LockInv'
  <2>1. DrainBegin(t) \in {"watch", "stopped"} /\ t \in Tasks
    BY <1>1 DEF DrainBegin
  <2>2. CASE AwaitMark(t) \/ AwaitDrained(t)
    BY <1>2, <2>1, <2>2, WaitLock DEF AwaitMark, AwaitDrained
  <2>3. CASE MarkDraining(t)
    <3>1. owner \in {None, t} /\ pc[t] \notin HoldingLabels
      BY <1>2, <2>1, <2>3, EnteringOutside DEF MarkDraining
    <3> QED
      BY <1>2, <2>1, <2>3, <3>1, LeaveLock DEF MarkDraining
  <2>4. CASE Drained(t)
    <3>1. owner \in {None, t} /\ pc[t] \notin HoldingLabels
      BY <1>2, <2>1, <2>4, EnteringOutside DEF Drained
    <3>2. \A u \in Tasks : pc[u] \notin HoldingLabels
      BY <2>1, <3>1, EntersAlone
    <3> QED
      BY <1>1, <2>1, <2>4, <3>2, EnterTerminateLock DEF Drained
  <2> QED
    BY <1>3, <2>2, <2>3, <2>4 DEF Draining
<1>4. CASE Publish \/ NothingToClean
  BY <1>1, <1>2, <1>4, OthersHold DEF Publish, NothingToClean, Goto
<1>5. CASE Reconfigure
  <2>1. \A u \in Tasks : pc'[u] \in {pc[u], "top"}
    BY <1>5 DEF Reconfigure, Schedule
  <2>2. UNCHANGED <<state, process, owner>>
    BY <1>5 DEF Reconfigure
  <2> QED
    BY <2>1, <2>2, OthersHold DEF HoldingLabels, StartLabels, TeardownLabels
<1>6. ASSUME NEW t \in {Reload, Checker}, NEW label \in {"joined", "stopped"}, Unlock(t),
             pc' = [pc EXCEPT ![Main] = label, ![t] = "done"],
             UNCHANGED <<state, process>>
      PROVE  LockInv'
  <2>1. /\ pc'[t] = "done" /\ pc'[Main] = label /\ \A u \in Tasks \ {t, Main} : pc'[u] = pc[u]
        /\ t \in Tasks
    BY <1>1, <1>6
  <2>2. ASSUME NEW u \in Tasks, pc'[u] \in HoldingLabels
        PROVE  pc'[u] = pc[u] /\ owner' = owner
    <3>1. u \notin {t, Main} /\ pc'[u] = pc[u]
      BY <1>2, <2>1, <2>2
    <3>2. owner = u
      BY <2>2, <3>1 DEF LockInv
    <3> QED
      BY <1>6, <3>1, <3>2 DEF Unlock
  <2> QED
    BY <1>6, <2>2, OthersHold
<1>7. CASE StopWatcher
  BY <1>6, <1>7 DEF StopWatcher
<1>8. CASE BeginShutdown
  BY <1>6, <1>8 DEF BeginShutdown
<1> QED
  BY <1>1, <1>3, <1>4, <1>5, <1>7, <1>8, TerminatingLock DEF ReloadStep, MainStep

LEMMA NextLock == TypeOK /\ LockInv /\ [Next]_vars => LockInv'
<1> SUFFICES ASSUME TypeOK, LockInv, [Next]_vars PROVE LockInv'
  OBVIOUS
<1>1. CASE Running
  BY <1>1, RequestLock, SupervisorLock, MonitorLock, CheckerLock, GatewayLock DEF Running
<1>2. CASE UNCHANGED vars
  BY <1>2, OthersHold DEF vars
<1> QED
  BY <1>1, <1>2 DEF Next

LEMMA InitLock == Init => LockInv
BY TasksAssumption DEF Init, LockInv, Tasks, HoldingLabels, StartLabels, TeardownLabels

(* In every environment, runtime.lock admits one coroutine at a time into  *)
(* a start, a termination or an exit report, whoever of them is cancelled  *)
(* inside; and what is inside a start finds the runtime STARTING.          *)
THEOREM LockExcludes == Spec => []LockInv
<1>1. TypeOK /\ LockInv /\ [Next]_vars => LockInv'
  BY NextLock
<1> QED
  BY <1>1, InitLock, TypeCorrect, PTL DEF Spec

=============================================================================
