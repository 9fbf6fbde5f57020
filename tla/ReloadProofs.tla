----------------------------- MODULE ReloadProofs -----------------------------
(***************************************************************************)
(* Theorems about Reload, for any paths, configurations, files and         *)
(* requests.                                                               *)
(*                                                                         *)
(* The registry, and what it says of a runtime, change in one step, the    *)
(* publication.  Every other step is steady: it changes what runtimes do.  *)
(***************************************************************************)
EXTENDS Reload, FiniteSetTheorems, WellFoundedInduction, TLAPS

(* apply_configuration is at work on candidate. *)
Reloading == {"mark", "drain", "stop", "close"}
ShuttingDown == {"stopped", "mark", "drain", "down"}
Cleanup == {"mark", "drain", "down"}

(* Nothing is left of the runtime, and nothing will come of it. *)
Gone(id) ==
    /\ runtime[id].phase = "DRAINING" /\ ~runtime[id].live
    /\ Holders(id) = {} /\ Starters(id) = {}
    /\ id \notin sessions
    /\ sweep # id

(* Each publication has read a later version of the file. *)
CountInv ==
    /\ watcher = "boot" => snapshots = 0 /\ seen = None
    /\ watcher = "stamp" => snapshots = 1 /\ seen = None
    /\ watcher = "poll" /\ seen = None => snapshots = 0
    /\ watcher = "poll" /\ seen # None => snapshots <= seen + 1
    /\ watcher \in {"load"} \cup Reloading => seen # None /\ snapshots <= seen
    /\ seen # None => seen <= file.mtime

PlaceInv ==
    /\ watcher \in {"boot", "stamp"} <=> main = "starting"
    /\ main \in ShuttingDown => watcher = "done"
    /\ sweep # None => main = "up"

(* What is true of each runtime whatever the registry says. *)
RuntimesInv ==
    \A id \in Ids :
        /\ runtime[id].live => IsManaged(id)
        /\ runtime[id].phase = "STARTING" => IsManaged(id)
        /\ runtime[id].phase = "DRAINING" => Created(id)
        /\ Created(id) => id[2] <= snapshots
        /\ Starters(id) # {} => runtime[id].phase = "STARTING"
        /\ sweep = id => runtime[id].phase = "DRAINING"
        /\ id \in sessions => Created(id)

RequestsInv ==
    \A r \in Requests :
        /\ request[r].at # "idle" => request[r].on \in Ids /\ Created(request[r].on)

RegistryInv ==
    /\ OneSnapshot
    /\ Listed # {} => applied # None
    /\ applied # None => Loads(applied)
    /\ \A p \in Listed : Created(Current(p))

RetiredInv == \A id \in Ids : Created(id) /\ ~Registered(id) => Gone(id)

(* What the reload has done, and what it is at. *)
ReloadInv ==
    watcher \in Reloading =>
        /\ candidate \in Contents /\ Loads(candidate)
        /\ todo # {} /\ todo \subseteq Retired(candidate)
        /\ \A p \in Retired(candidate) \ todo : Gone(Current(p))
        /\ watcher \in {"drain", "stop", "close"} =>
               runtime[Retiring].phase = "DRAINING" /\ sweep # Retiring
        /\ watcher \in {"stop", "close"} => Holders(Retiring) = {}
        /\ watcher = "close" => ~runtime[Retiring].live

(* A runtime that cleanup has stopped rests for good. *)
AtRest(id) ==
    runtime[id].phase = "STOPPED" /\ ~runtime[id].live /\ Holders(id) = {} /\ Starters(id) = {}

CleanupInv ==
    /\ cleaning \subseteq Listed
    /\ main \notin Cleanup => cleaning = {}
    /\ main \in Cleanup => \A p \in Listed \ cleaning : IsManaged(Current(p)) => AtRest(Current(p))
    /\ main = "drain" => cleaning # {} /\ runtime[Cleaning].phase = "DRAINING"
    /\ main = "down" => cleaning = {}

(* Who is draining an endpoint of the registry. *)
DrainInv ==
    main \in {"starting", "up"} =>
        \A p \in Listed : runtime[Current(p)].phase = "DRAINING" =>
            \/ sweep = Current(p)
            \/ p \in abandoned
            \/ /\ watcher \in Reloading
               /\ \/ p \in Retired(candidate) \ todo
                  \/ watcher # "mark" /\ p = Lowest(todo)

ReloadsInv ==
    /\ TypeOK /\ CountInv /\ PlaceInv
    /\ RuntimesInv /\ RequestsInv
    /\ RegistryInv /\ RetiredInv
    /\ ReloadInv /\ CleanupInv /\ DrainInv

-----------------------------------------------------------------------------
(* Types. *)

InPlaces == {c.inPlace : c \in Contents} \cup {None}
Phases == {"STOPPED", "STARTING", "RUNNING", "DRAINING", "FAILED"}
RuntimeRecord == [core : Cores \cup {None}, inPlace : InPlaces, phase : Phases,
                  spawned : BOOLEAN, live : BOOLEAN]
RequestRecord == [at : {"idle", "captured", "starting", "leased"}, on : Ids \cup {None}]

LEMMA Kinds ==
    TypeOK => /\ runtime \in [Ids -> RuntimeRecord]
              /\ request \in [Requests -> RequestRecord]
              /\ registry \in [Paths -> Snapshots \cup {None}]
              /\ snapshots \in Nat /\ seen \in Nat \cup {None} /\ file.mtime \in Nat
              /\ todo \subseteq Paths /\ cleaning \subseteq Paths
              /\ sweep \in Ids \cup {None}
BY ReloadAssumption DEF TypeOK, RuntimeRecord, RequestRecord, InPlaces, Phases

LEMMA Names ==
    /\ None \notin Cores /\ None \notin Managed /\ None \notin Contents /\ None \notin Ids
    /\ None \notin Nat /\ MaxWrites \in Nat
    /\ \A c \in Contents : c.endpoints \in [Paths -> Cores \cup {None}]
    /\ \A s \in Snapshots : s \in Nat /\ s # None
BY NoneAssumption, ReloadAssumption DEF Snapshots

LEMMA CurrentIs ==
    ASSUME TypeOK
    PROVE  /\ \A p \in Listed : p \in Paths /\ Current(p) \in Ids /\ Current(p)[1] = p
                                /\ Registered(Current(p))
           /\ \A id \in Ids : Registered(id) => id[1] \in Listed /\ id = Current(id[1])
           /\ \A p, q : Current(p) = Current(q) => p = q
<1>1. registry \in [Paths -> Snapshots \cup {None}]
  BY Kinds
<1>2. ASSUME NEW p \in Listed
      PROVE  p \in Paths /\ Current(p) \in Ids /\ Current(p)[1] = p /\ Registered(Current(p))
  BY <1>1, <1>2 DEF Listed, Current, Ids, Registered
<1>3. ASSUME NEW id \in Ids, Registered(id)
      PROVE  id[1] \in Listed /\ id = Current(id[1])
  <2>1. PICK p \in Paths, s \in Snapshots : id = <<p, s>>
    BY DEF Ids
  <2> QED
    BY <1>3, <2>1, Names DEF Registered, Listed, Current
<1>4. \A p, q : Current(p) = Current(q) => p = q
  BY DEF Current
<1> QED
  BY <1>2, <1>3, <1>4

(* sorted(...)[0]: every set of paths but the empty one has a lowest. *)
LEMMA LowestIs ==
    ASSUME NEW S \in SUBSET Paths, S # {}
    PROVE  Lowest(S) \in S
<1> DEFINE below(p) == {q \in S : q < p}
           T == {below(p) : p \in S}
<1>1. IsFiniteSet(S) /\ S \subseteq Nat
  BY ReloadAssumption, FS_Subset
<1>2. T \subseteq FiniteSubsetsOf(S) /\ T # {}
  <2>1. \A p \in S : below(p) \in SUBSET S
    OBVIOUS
  <2>2. FiniteSubsetsOf(S) = SUBSET S
    BY <1>1, FS_FiniteSubsetsOfFinite
  <2>3. PICK p \in S : TRUE
    OBVIOUS
  <2>4. below(p) \in T
    OBVIOUS
  <2> HIDE DEF below
  <2> QED
    BY <2>1, <2>2, <2>4
<1>3. PICK B \in T : \A A \in T : <<A, B>> \notin StrictSubsetOrdering(S)
  <2>1. IsWellFoundedOn(StrictSubsetOrdering(S), FiniteSubsetsOf(S))
    BY FS_StrictSubsetOrderingWellFounded
  <2> HIDE DEF T
  <2> QED
    BY <1>2, <2>1, WFMin
<1>4. PICK p \in S : B = below(p)
  BY <1>3
<1>5. ASSUME NEW q \in S, q < p
      PROVE  FALSE
  <2>1. below(q) \in T /\ below(q) \in SUBSET S /\ below(p) \in SUBSET S
    BY <1>5
  <2>2. below(q) \subseteq below(p)
    <3>1. q \in Nat /\ p \in Nat /\ \A x \in S : x \in Nat
      BY <1>1
    <3>2. \A x \in S : x < q => x < p
      BY <1>5, <3>1
    <3> QED
      BY <3>2
  <2>3. q \in below(p) /\ q \notin below(q)
    BY <1>1, <1>5
  <2> HIDE DEF below, T
  <2>4. <<below(q), below(p)>> \in StrictSubsetOrdering(S)
    BY <2>1, <2>2, <2>3 DEF StrictSubsetOrdering
  <2> QED
    BY <1>3, <1>4, <2>1, <2>4
<1>6. \A q \in S : p <= q
  BY <1>1, <1>5
<1> QED
  BY <1>6 DEF Lowest

-----------------------------------------------------------------------------
(* Steady steps: the registry and the configurations of runtimes stay.     *)

Steady ==
    /\ UNCHANGED snapshotVars
    /\ \A id \in Ids : /\ runtime'[id].core = runtime[id].core
                       /\ runtime'[id].inPlace = runtime[id].inPlace

LEMMA SteadyFacts ==
    ASSUME TypeOK, Steady
    PROVE  /\ Listed' = Listed
           /\ \A p : Current(p)' = Current(p)
           /\ \A id : Registered(id)' <=> Registered(id)
           /\ \A id \in Ids : Created(id)' <=> Created(id)
           /\ \A id \in Ids : IsManaged(id)' <=> IsManaged(id)
           /\ candidate' = candidate => Retired(candidate)' = Retired(candidate)
           /\ RegistryInv => RegistryInv'
<1>1. /\ UNCHANGED <<registry, published, snapshots, applied>>
      /\ \A id \in Ids : /\ runtime'[id].core = runtime[id].core
                         /\ runtime'[id].inPlace = runtime[id].inPlace
  BY DEF Steady, snapshotVars
<1>2. Listed' = Listed /\ \A p : Current(p)' = Current(p)
  BY <1>1 DEF Listed, Current
<1>3. \A id : Registered(id)' <=> Registered(id)
  BY <1>1 DEF Registered
<1>4. \A id \in Ids : /\ Created(id)' <=> Created(id)
                      /\ IsManaged(id)' <=> IsManaged(id)
  BY <1>1 DEF Created, IsManaged
<1>5. \A p \in Listed : Current(p) \in Ids
  BY CurrentIs
<1>6. ASSUME candidate' = candidate
      PROVE  Retired(candidate)' = Retired(candidate)
  BY <1>1, <1>2, <1>5, <1>6 DEF Retired
<1>7. ASSUME RegistryInv
      PROVE  RegistryInv'
  <2>1. OneSnapshot'
    BY <1>1, <1>2, <1>5, <1>7 DEF RegistryInv, OneSnapshot
  <2> QED
    BY <1>1, <1>2, <1>4, <1>5, <1>7, <2>1 DEF RegistryInv, Loads
<1> QED
  BY <1>2, <1>3, <1>4, <1>6, <1>7

-----------------------------------------------------------------------------
(* Service: what requests, starts, exits and the sweep do to a runtime,    *)
(* beside the watcher and lifespan.                                        *)

LeasedOn(r, id) == request[r].at = "leased" /\ request[r].on = id
StartingOn(r, id) == request[r].at = "starting" /\ request[r].on = id

LEMMA HoldersAre ==
    /\ \A id : Holders(id) = {} <=> \A r \in Requests : ~LeasedOn(r, id)
    /\ \A id : Starters(id) = {} <=> \A r \in Requests : ~StartingOn(r, id)
BY DEF Holders, Starters, LeasedOn, StartingOn

Serves(id) ==
    /\ runtime'[id].live => IsManaged(id) /\ (runtime[id].live \/ runtime[id].phase = "STARTING")
    /\ runtime'[id].phase = "STARTING" => IsManaged(id)
    /\ runtime'[id].phase = "DRAINING" => runtime[id].phase = "DRAINING" \/ sweep' = id
    /\ runtime[id].phase = "DRAINING" => runtime'[id].phase = "DRAINING" \/ sweep = id
    /\ sweep = id => sweep' = id \/ runtime'[id].phase # "DRAINING"
    /\ sweep' = id => /\ runtime'[id].phase = "DRAINING" /\ Created(id)
                      /\ sweep = id \/ runtime[id].phase = "RUNNING"
    /\ id \in sessions' => Created(id) /\ (id \in sessions \/ runtime[id].phase # "DRAINING")
    /\ \A r \in Requests : StartingOn(r, id)' => runtime'[id].phase = "STARTING"
    /\ runtime[id].phase = "DRAINING" \/ (runtime[id].phase = "STOPPED" /\ main # "up") =>
           \A r \in Requests : LeasedOn(r, id)' => LeasedOn(r, id)
    /\ runtime[id].phase = "STOPPED" /\ main # "up" => runtime'[id].phase = "STOPPED"

ServiceStep ==
    /\ Steady
    /\ UNCHANGED <<fileVars, reloadVars, mainVars>>
    /\ \A id \in Ids : Serves(id)
    /\ RequestsInv'
    /\ sweep' # None => main = "up"

LEMMA GoneStays ==
    ASSUME ReloadsInv, ServiceStep, NEW id \in Ids
    PROVE  /\ Gone(id) => Gone(id)'
           /\ AtRest(id) /\ main # "up" => AtRest(id)'
           /\ runtime[id].phase = "DRAINING" /\ sweep # id =>
                  /\ runtime'[id].phase = "DRAINING" /\ sweep' # id
                  /\ Holders(id) = {} => Holders(id)' = {}
                  /\ runtime'[id].live => runtime[id].live
<1>1. Serves(id)
  BY DEF ServiceStep
<1>2. /\ (Holders(id) = {})' <=> \A r \in Requests : ~LeasedOn(r, id)'
      /\ (Starters(id) = {})' <=> \A r \in Requests : ~StartingOn(r, id)'
  BY DEF Holders, Starters, LeasedOn, StartingOn
<1>3. runtime[id].phase = "DRAINING" /\ sweep # id =>
                  /\ runtime'[id].phase = "DRAINING" /\ sweep' # id
                  /\ Holders(id) = {} => Holders(id)' = {}
                  /\ runtime'[id].live => runtime[id].live
  BY <1>1, <1>2, HoldersAre DEF Serves
<1>4. Gone(id) => Gone(id)'
  BY <1>1, <1>2, <1>3, HoldersAre DEF Serves, Gone
<1>5. AtRest(id) /\ main # "up" => AtRest(id)'
  BY <1>1, <1>2, HoldersAre DEF Serves, AtRest
<1> QED
  BY <1>3, <1>4, <1>5

LEMMA RetiringIs ==
    ASSUME ReloadsInv, watcher \in Reloading
    PROVE  /\ Lowest(todo) \in todo /\ Lowest(todo) \in Retired(candidate)
           /\ Lowest(todo) \in Listed
           /\ Retiring \in Ids /\ Registered(Retiring) /\ Created(Retiring)
<1>1. todo # {} /\ todo \subseteq Retired(candidate)
  BY DEF ReloadsInv, ReloadInv
<1>2. Lowest(todo) \in todo /\ Lowest(todo) \in Retired(candidate)
  BY <1>1, Kinds, LowestIs DEF ReloadsInv
<1>3. Lowest(todo) \in Listed
  BY <1>2 DEF Retired
<1> QED
  BY <1>2, <1>3, CurrentIs DEF Retiring, ReloadsInv, RegistryInv

LEMMA CleaningIs ==
    ASSUME ReloadsInv, cleaning # {}
    PROVE  /\ Lowest(cleaning) \in cleaning /\ Lowest(cleaning) \in Listed
           /\ Cleaning \in Ids /\ Registered(Cleaning) /\ Created(Cleaning)
<1>1. Lowest(cleaning) \in cleaning
  BY Kinds, LowestIs DEF ReloadsInv
<1>2. Lowest(cleaning) \in Listed
  BY <1>1 DEF ReloadsInv, CleanupInv
<1> QED
  BY <1>1, <1>2, CurrentIs DEF Cleaning, ReloadsInv, RegistryInv

LEMMA ServiceKeeps ==
    ASSUME ReloadsInv, TypeOK', ServiceStep
    PROVE  ReloadsInv'
<1> USE DEF ReloadsInv
<1>1. /\ UNCHANGED <<file, seen, watcher, candidate, todo, abandoned, main, cleaning>>
      /\ UNCHANGED <<registry, published, snapshots, applied>>
      /\ Steady /\ \A id \in Ids : Serves(id)
  BY DEF ServiceStep, Steady, fileVars, reloadVars, mainVars, snapshotVars
<1>2. /\ Listed' = Listed
      /\ \A p : Current(p)' = Current(p)
      /\ \A id : Registered(id)' <=> Registered(id)
      /\ \A id \in Ids : Created(id)' <=> Created(id)
      /\ \A id \in Ids : IsManaged(id)' <=> IsManaged(id)
      /\ Retired(candidate)' = Retired(candidate)
      /\ RegistryInv'
  BY <1>1, SteadyFacts
<1>3. \A p \in Listed : p \in Paths /\ Current(p) \in Ids /\ Registered(Current(p))
  BY CurrentIs
<1>4. CountInv' /\ PlaceInv'
  BY <1>1 DEF CountInv, PlaceInv, ServiceStep
<1>5. RuntimesInv'
  <2> SUFFICES ASSUME NEW id \in Ids
               PROVE  /\ runtime'[id].live => IsManaged(id)
                      /\ runtime'[id].phase = "STARTING" => IsManaged(id)
                      /\ runtime'[id].phase = "DRAINING" => Created(id)
                      /\ Created(id) => id[2] <= snapshots
                      /\ (Starters(id) # {})' => runtime'[id].phase = "STARTING"
                      /\ sweep' = id => runtime'[id].phase = "DRAINING"
                      /\ id \in sessions' => Created(id)
    BY <1>1, <1>2 DEF RuntimesInv
  <2>1. Serves(id)
    BY <1>1
  <2>2. (Starters(id) = {})' <=> \A r \in Requests : ~StartingOn(r, id)'
    BY DEF Starters, StartingOn
  <2> QED
    BY <2>1, <2>2 DEF RuntimesInv, Serves
<1>6. RequestsInv'
  BY DEF ServiceStep
<1>7. RetiredInv'
  BY <1>2, GoneStays DEF RetiredInv
<1>8. ReloadInv'
  <2> SUFFICES ASSUME watcher \in Reloading
               PROVE  ReloadInv'
    BY <1>1 DEF ReloadInv
  <2>1. Retiring' = Retiring /\ Retiring \in Ids
    BY <1>1, RetiringIs DEF Retiring, Current
  <2>2. \A p \in Retired(candidate) \ todo : Gone(Current(p))'
    <3>1. \A p \in Retired(candidate) : Current(p) \in Ids
      BY <1>3 DEF Retired
    <3>2. \A id \in Ids : Gone(id) => Gone(id)'
      BY GoneStays
    <3> QED
      BY <1>2, <3>1, <3>2 DEF ReloadInv, Gone, Holders, Starters
  <2> QED
    BY <1>1, <1>2, <2>1, <2>2, GoneStays DEF ReloadInv, Holders, Loads
<1>9. CleanupInv'
  <2>1. main \in Cleanup => \A p \in Listed \ cleaning : IsManaged(Current(p)) => AtRest(Current(p))'
    <3>1. \A id \in Ids : AtRest(id) /\ main # "up" => AtRest(id)'
      BY GoneStays
    <3>2. main \in Cleanup => \A p \in Listed \ cleaning : IsManaged(Current(p)) => AtRest(Current(p))
      BY DEF CleanupInv
    <3> QED
      BY <1>2, <1>3, <3>1, <3>2 DEF AtRest, Holders, Starters, Cleanup
  <2>2. cleaning # {} => Cleaning' = Cleaning /\ Cleaning \in Ids
    BY <1>1, CleaningIs DEF Cleaning, Current
  <2>3. sweep # None => main = "up"
    BY DEF PlaceInv
  <2>4. main = "drain" => runtime'[Cleaning].phase = "DRAINING"
    BY <2>2, <2>3, Names, GoneStays DEF CleanupInv
  <2> QED
    BY <1>1, <1>2, <1>3, <2>1, <2>2, <2>4 DEF CleanupInv, AtRest, Holders, Starters
<1>10. DrainInv'
  <2> SUFFICES ASSUME main \in {"starting", "up"}, NEW p \in Listed,
         runtime'[Current(p)].phase = "DRAINING"
               PROVE  \/ sweep' = Current(p)
                      \/ p \in abandoned
                      \/ /\ watcher \in Reloading
                         /\ \/ p \in Retired(candidate) \ todo
                            \/ watcher # "mark" /\ p = Lowest(todo)
    BY <1>1, <1>2 DEF DrainInv
  <2>1. Serves(Current(p))
    BY <1>1, <1>3
  <2> QED
    BY <2>1 DEF Serves, DrainInv
<1> QED
  BY <1>2, <1>4, <1>5, <1>6, <1>7, <1>8, <1>9, <1>10

(* What happens to one runtime. *)
OnlyAt(id, phase, live) ==
    /\ runtime' \in [Ids -> RuntimeRecord]
    /\ runtime'[id].phase = phase /\ runtime'[id].live = live
    /\ runtime'[id].core = runtime[id].core /\ runtime'[id].inPlace = runtime[id].inPlace
    /\ \A x \in Ids : x # id => runtime'[x] = runtime[x]

LEMMA PhaseSet ==
    ASSUME TypeOK, NEW id \in Ids, NEW phase \in Phases, SetPhase(id, phase)
    PROVE  OnlyAt(id, phase, runtime[id].live)
<1>1. runtime \in [Ids -> RuntimeRecord]
  BY Kinds
<1>2. runtime' = [runtime EXCEPT ![id] = [runtime[id] EXCEPT !.phase = phase, !.spawned = FALSE]]
  BY DEF SetPhase
<1>3. [runtime[id] EXCEPT !.phase = phase, !.spawned = FALSE] \in RuntimeRecord
  BY <1>1 DEF RuntimeRecord
<1> QED
  BY <1>1, <1>2, <1>3 DEF OnlyAt, RuntimeRecord

LEMMA LifeSet ==
    ASSUME TypeOK, NEW id \in Ids, NEW live \in BOOLEAN,
           \/ runtime' = [runtime EXCEPT ![id].live = live]
           \/ runtime' = [runtime EXCEPT ![id].spawned = TRUE, ![id].live = live]
    PROVE  OnlyAt(id, runtime[id].phase, live)
<1>1. runtime \in [Ids -> RuntimeRecord]
  BY Kinds
<1>2. PICK spawned \in BOOLEAN :
         runtime' = [runtime EXCEPT ![id] = [runtime[id] EXCEPT !.spawned = spawned, !.live = live]]
  <2>1. CASE runtime' = [runtime EXCEPT ![id].live = live]
    <3>1. [runtime[id] EXCEPT !.live = live]
            = [runtime[id] EXCEPT !.spawned = runtime[id].spawned, !.live = live]
      BY <1>1 DEF RuntimeRecord
    <3>2. runtime[id].spawned \in BOOLEAN
      BY <1>1 DEF RuntimeRecord
    <3> QED
      BY <2>1, <3>1, <3>2
  <2>2. CASE runtime' = [runtime EXCEPT ![id].spawned = TRUE, ![id].live = live]
    BY <2>2
  <2> QED
    BY <2>1, <2>2
<1>3. [runtime[id] EXCEPT !.spawned = spawned, !.live = live] \in RuntimeRecord
  BY <1>1 DEF RuntimeRecord
<1> QED
  BY <1>1, <1>2, <1>3 DEF OnlyAt, RuntimeRecord

LEMMA ServiceTypes ==
    ASSUME TypeOK, runtime' \in [Ids -> RuntimeRecord], request' \in [Requests -> RequestRecord],
           sessions' \in SUBSET Ids, sweep' \in Ids \cup {None},
           UNCHANGED <<fileVars, reloadVars, snapshotVars, mainVars>>
    PROVE  TypeOK'
BY DEF TypeOK, fileVars, reloadVars, snapshotVars, mainVars, RuntimeRecord, RequestRecord, InPlaces,
       Phases

(* Whatever else the requests do, a runtime that nobody touches goes on. *)
LEMMA ServesOn ==
    ASSUME ReloadsInv, NEW id \in Ids, runtime'[id] = runtime[id], sweep' = id <=> sweep = id,
           id \in sessions' => id \in sessions \/ (Created(id) /\ runtime[id].phase # "DRAINING"),
           \A r \in Requests : StartingOn(r, id)' => StartingOn(r, id),
           \A r \in Requests : LeasedOn(r, id)' => LeasedOn(r, id) \/ runtime[id].phase = "RUNNING"
    PROVE  Serves(id)
<1>1. /\ runtime[id].live => IsManaged(id)
      /\ runtime[id].phase = "STARTING" => IsManaged(id)
      /\ Starters(id) # {} => runtime[id].phase = "STARTING"
      /\ sweep = id => runtime[id].phase = "DRAINING"
      /\ id \in sessions => Created(id)
      /\ runtime[id].phase = "DRAINING" => Created(id)
  BY DEF ReloadsInv, RuntimesInv
<1> QED
  BY <1>1, HoldersAre DEF Serves

(* The steps of processes and their supervisors. *)
LEMMA ProcessSteps ==
    ASSUME ReloadsInv, NEW id \in Ids,
           Launch(id) \/ Die(id) \/ ExitReported(id) \/ Restart(id)
    PROVE  ReloadsInv'
<1>1. TypeOK /\ UNCHANGED <<fileVars, reloadVars, snapshotVars, request, sessions, sweep, mainVars>>
  BY DEF ReloadsInv, Launch, Die, ExitReported, Restart
<1>2. PICK phase \in Phases, live \in BOOLEAN :
         /\ OnlyAt(id, phase, live)
         /\ \/ /\ phase = runtime[id].phase
               /\ live => runtime[id].phase = "STARTING"
            \/ /\ IsManaged(id) /\ live = runtime[id].live
               /\ \/ runtime[id].phase = "RUNNING" /\ phase = "FAILED"
                  \/ runtime[id].phase = "FAILED" /\ phase = "STARTING"
  <2>1. runtime[id].phase \in Phases /\ runtime[id].live \in BOOLEAN
    BY <1>1, Kinds DEF RuntimeRecord
  <2>2. CASE Launch(id)
    BY <1>1, <2>1, <2>2, LifeSet DEF Launch
  <2>3. CASE Die(id)
    BY <1>1, <2>1, <2>3, LifeSet DEF Die
  <2>4. CASE ExitReported(id)
    BY <1>1, <2>1, <2>4, PhaseSet DEF ExitReported, Phases
  <2>5. CASE Restart(id)
    BY <1>1, <2>1, <2>5, PhaseSet DEF Restart, Phases
  <2> QED
    BY <2>2, <2>3, <2>4, <2>5
<1>3. Steady
  BY <1>1, <1>2 DEF Steady, OnlyAt
<1>4. RequestsInv'
  BY <1>1, <1>3, SteadyFacts DEF ReloadsInv, RequestsInv
<1>5. ASSUME NEW x \in Ids
      PROVE  Serves(x)
  <2>1. CASE x # id
    BY <1>1, <1>2, <2>1, ServesOn DEF OnlyAt, StartingOn, LeasedOn
  <2>2. CASE x = id
    <3>1. /\ runtime[id].phase = "STARTING" => IsManaged(id)
          /\ Starters(id) # {} => runtime[id].phase = "STARTING"
          /\ sweep = id => runtime[id].phase = "DRAINING"
          /\ id \in sessions => Created(id)
          /\ runtime[id].phase = "DRAINING" => Created(id)
      BY DEF ReloadsInv, RuntimesInv
    <3>2. runtime'[id].phase = phase /\ runtime'[id].live = live
      BY <1>2 DEF OnlyAt
    <3> QED
      BY <1>1, <1>2, <2>2, <3>1, <3>2, HoldersAre DEF Serves, StartingOn, LeasedOn
  <2> QED
    BY <2>1, <2>2
<1>6. TypeOK'
  BY <1>1, <1>2, Kinds, ServiceTypes DEF OnlyAt, TypeOK
<1>7. sweep' # None => main = "up"
  BY <1>1 DEF ReloadsInv, PlaceInv
<1> QED
  BY <1>1, <1>3, <1>4, <1>5, <1>6, <1>7, ServiceKeeps DEF ServiceStep

LEMMA RequestMoves ==
    ASSUME TypeOK, NEW r \in Requests
    PROVE  /\ Leave(r) => /\ request' \in [Requests -> RequestRecord]
                          /\ request'[r].at = "idle"
                          /\ \A q \in Requests : q # r => request'[q] = request[q]
           /\ \A place \in {"starting", "leased"} :
                At(r, place) => /\ request' \in [Requests -> RequestRecord]
                                /\ request'[r].at = place /\ request'[r].on = request[r].on
                                /\ \A q \in Requests : q # r => request'[q] = request[q]
<1>1. request \in [Requests -> RequestRecord]
  BY Kinds
<1>2. Idle \in RequestRecord /\ Idle.at = "idle"
  BY DEF Idle, RequestRecord
<1>3. ASSUME NEW place \in {"starting", "leased"}
      PROVE  [request[r] EXCEPT !.at = place] \in RequestRecord
  BY <1>1 DEF RequestRecord
<1>4. Leave(r) => /\ request' \in [Requests -> RequestRecord]
                  /\ request'[r].at = "idle"
                  /\ \A q \in Requests : q # r => request'[q] = request[q]
  BY <1>1, <1>2 DEF Leave
<1>5. ASSUME NEW place \in {"starting", "leased"}, At(r, place)
      PROVE  /\ request' \in [Requests -> RequestRecord]
             /\ request'[r].at = place /\ request'[r].on = request[r].on
             /\ \A q \in Requests : q # r => request'[q] = request[q]
  <2>1. request' = [request EXCEPT ![r] = [request[r] EXCEPT !.at = place]]
    BY <1>5 DEF At
  <2> QED
    BY <1>1, <1>3, <2>1 DEF RequestRecord
<1> QED
  BY <1>4, <1>5

(* What requests may do without a runtime's taking notice. *)
RequestsMove ==
    /\ request' \in [Requests -> RequestRecord]
    /\ \A q \in Requests :
         \/ request'[q] = request[q]
         \/ request'[q].at = "idle"
         \/ request'[q].at = "captured" /\ request'[q].on \in Ids /\ Created(request'[q].on)
         \/ /\ request'[q].at = "leased" /\ request[q].at # "idle"
            /\ request'[q].on = request[q].on /\ runtime[request[q].on].phase = "RUNNING"

(* Steps of requests and sessions that leave every runtime as it is. *)
LEMMA RequestSteps ==
    ASSUME ReloadsInv,
           \/ \E r \in Requests : \/ Capture(r) \/ Grant(r) \/ Reject(r) \/ Finish(r)
                                  \/ OpenSession(r)
           \/ CloseSession
    PROVE  ReloadsInv'
<1>1. TypeOK /\ UNCHANGED <<fileVars, reloadVars, snapshotVars, runtime, sweep, mainVars>>
  BY DEF ReloadsInv, Capture, Grant, Reject, Finish, OpenSession, CloseSession
<1>2. /\ sessions' \in SUBSET Ids
      /\ \A id \in sessions' \ sessions : Created(id) /\ runtime[id].phase # "DRAINING"
  BY DEF Capture, Grant, Reject, Finish, OpenSession, CloseSession, ReloadsInv, TypeOK, RequestsInv
<1>3. RequestsMove
  <2>1. CASE CloseSession
    BY <1>1, <2>1, Kinds DEF CloseSession, RequestsMove
  <2>2. ASSUME NEW r \in Requests, Capture(r)
        PROVE  RequestsMove
    <3>1. PICK p \in Listed : request' = [request EXCEPT ![r] = [at |-> "captured", on |-> Current(p)]]
      BY <2>2 DEF Capture
    <3>2. Current(p) \in Ids /\ Created(Current(p))
      BY <1>1, CurrentIs DEF ReloadsInv, RegistryInv
    <3>3. [at |-> "captured", on |-> Current(p)] \in RequestRecord
      BY <3>2 DEF RequestRecord
    <3> QED
      BY <1>1, <3>1, <3>2, <3>3, Kinds DEF RequestsMove
  <2>3. ASSUME NEW r \in Requests, Grant(r)
        PROVE  RequestsMove
    BY <1>1, <2>3, RequestMoves DEF Grant, RequestsMove
  <2>4. ASSUME NEW r \in Requests, Reject(r) \/ Finish(r) \/ OpenSession(r)
        PROVE  RequestsMove
    BY <1>1, <2>4, RequestMoves DEF Reject, Finish, OpenSession, RequestsMove
  <2> QED
    BY <2>1, <2>2, <2>3, <2>4
<1>4. Steady
  BY <1>1 DEF Steady
<1>5. RequestsInv'
  BY <1>1, <1>3, <1>4, SteadyFacts DEF ReloadsInv, RequestsInv, RequestsMove
<1>6. ASSUME NEW id \in Ids
      PROVE  Serves(id)
  <2>1. \A q \in Requests : StartingOn(q, id)' => StartingOn(q, id)
    BY <1>3 DEF StartingOn, RequestsMove
  <2>2. \A q \in Requests : LeasedOn(q, id)' => LeasedOn(q, id) \/ runtime[id].phase = "RUNNING"
    BY <1>3 DEF LeasedOn, RequestsMove
  <2> QED
    BY <1>1, <1>2, <2>1, <2>2, ServesOn
<1>7. TypeOK'
  BY <1>1, <1>2, <1>3, Kinds, ServiceTypes DEF RequestsMove
<1>8. sweep' # None => main = "up"
  BY <1>1 DEF ReloadsInv, PlaceInv
<1> QED
  BY <1>1, <1>4, <1>5, <1>6, <1>7, <1>8, ServiceKeeps DEF ServiceStep

(* A start begins on demand, or ends for whoever began it. *)
StartMoves(id, phase) ==
    /\ OnlyAt(id, phase, runtime[id].live)
    /\ request' \in [Requests -> RequestRecord]
    /\ \A q \in Requests :
         \/ request'[q] = request[q]
         \/ request'[q].at = "idle"
         \/ /\ request'[q].at \in {"starting", "leased"}
            /\ request'[q].on = id /\ request[q].on = id /\ request[q].at # "idle"
    /\ \/ /\ phase = "STARTING" /\ main = "up" /\ IsManaged(id)
          /\ runtime[id].phase \in {"STOPPED", "RUNNING"}
       \/ /\ runtime[id].phase = "STARTING" /\ phase \in {"RUNNING", "FAILED", "STOPPED"}
          /\ \A q \in Requests : ~StartingOn(q, id)'

LEMMA StartSteps ==
    ASSUME ReloadsInv,
           \/ \E r \in Requests : Activate(r)
           \/ \E id \in Ids : Serve(id) \/ StartEnds(id)
    PROVE  ReloadsInv'
<1>1. TypeOK /\ UNCHANGED <<fileVars, reloadVars, snapshotVars, sessions, sweep, mainVars>>
  BY DEF ReloadsInv, Activate, Serve, StartEnds
<1>2. PICK id \in Ids, phase \in Phases : StartMoves(id, phase)
  <2>1. ASSUME NEW r \in Requests, Activate(r)
        PROVE  \E id \in Ids, phase \in Phases : StartMoves(id, phase)
    <3>1. request[r].on \in Ids
      BY <2>1 DEF Activate, ReloadsInv, RequestsInv
    <3>2. OnlyAt(request[r].on, "STARTING", runtime[request[r].on].live)
      BY <1>1, <2>1, <3>1, PhaseSet DEF Activate, Phases
    <3> QED
      BY <1>1, <2>1, <3>1, <3>2, RequestMoves DEF Activate, StartMoves, Phases
  <2>2. ASSUME NEW id \in Ids, Serve(id)
        PROVE  StartMoves(id, "RUNNING")
    <3>1. OnlyAt(id, "RUNNING", runtime[id].live)
      BY <1>1, <2>2, PhaseSet DEF Serve, Phases
    <3>2. ASSUME NEW q \in Requests
          PROVE  /\ request'[q] \in RequestRecord
                 /\ IF StartingOn(q, id) THEN request'[q].at = "leased" /\ request'[q].on = id
                    ELSE request'[q] = request[q]
      BY <1>1, <2>2, Kinds DEF Serve, Starters, StartingOn, RequestRecord
    <3>3. request' \in [Requests -> RequestRecord]
      BY <2>2, <3>2 DEF Serve
    <3> QED
      BY <2>2, <3>1, <3>2, <3>3 DEF Serve, StartMoves, StartingOn
  <2>3. ASSUME NEW id \in Ids, StartEnds(id)
        PROVE  \E phase \in Phases : StartMoves(id, phase)
    <3>1. PICK phase \in {"FAILED", "STOPPED"} : OnlyAt(id, phase, runtime[id].live)
      BY <1>1, <2>3, PhaseSet DEF StartEnds, Phases
    <3>2. ASSUME NEW q \in Requests
          PROVE  /\ request'[q] \in RequestRecord
                 /\ IF StartingOn(q, id) THEN request'[q].at = "idle"
                    ELSE request'[q] = request[q]
      BY <1>1, <2>3, Kinds DEF StartEnds, Starters, StartingOn, RequestRecord, Idle
    <3>3. request' \in [Requests -> RequestRecord]
      BY <2>3, <3>2 DEF StartEnds
    <3> QED
      BY <2>3, <3>1, <3>2, <3>3 DEF StartEnds, StartMoves, StartingOn, Phases
  <2> QED
    BY <1>1, <2>1, <2>2, <2>3 DEF Phases
<1>3. Steady
  BY <1>1, <1>2 DEF Steady, StartMoves, OnlyAt
<1>4. RequestsInv'
  BY <1>1, <1>2, <1>3, SteadyFacts DEF ReloadsInv, RequestsInv, StartMoves
<1>5. ASSUME NEW x \in Ids
      PROVE  Serves(x)
  <2>1. CASE x # id
    <3>1. runtime'[x] = runtime[x]
      BY <1>2, <2>1 DEF StartMoves, OnlyAt
    <3>2. \A q \in Requests : /\ StartingOn(q, x)' => StartingOn(q, x)
                              /\ LeasedOn(q, x)' => LeasedOn(q, x)
      BY <1>2, <2>1 DEF StartMoves, StartingOn, LeasedOn
    <3> QED
      BY <1>1, <3>1, <3>2, ServesOn
  <2>2. CASE x = id
    <3>1. /\ runtime[id].live => IsManaged(id)
          /\ runtime[id].phase = "STARTING" => IsManaged(id)
          /\ sweep = id => runtime[id].phase = "DRAINING"
          /\ id \in sessions => Created(id)
      BY DEF ReloadsInv, RuntimesInv
    <3>2. runtime'[id].phase = phase /\ runtime'[id].live = runtime[id].live
      BY <1>2 DEF StartMoves, OnlyAt
    <3>3. \A q \in Requests : StartingOn(q, id)' => phase = "STARTING"
      BY <1>2 DEF StartMoves
    <3> QED
      BY <1>1, <1>2, <2>2, <3>1, <3>2, <3>3 DEF StartMoves, Serves
  <2> QED
    BY <2>1, <2>2
<1>6. TypeOK'
  BY <1>1, <1>2, Kinds, ServiceTypes DEF StartMoves, OnlyAt, TypeOK
<1>7. sweep' # None => main = "up"
  BY <1>1 DEF ReloadsInv, PlaceInv
<1> QED
  BY <1>1, <1>3, <1>4, <1>5, <1>6, <1>7, ServiceKeeps DEF ServiceStep

(* The idle sweep stops one process at a time. *)
LEMMA SweepSteps ==
    ASSUME ReloadsInv, SweepRests \/ \E id \in Ids : SweepDrains(id)
    PROVE  ReloadsInv'
<1>1. TypeOK /\ UNCHANGED <<fileVars, reloadVars, snapshotVars, request, sessions, mainVars>>
  BY DEF ReloadsInv, SweepRests, SweepDrains
<1>2. PICK id \in Ids, phase \in Phases :
         /\ OnlyAt(id, phase, runtime[id].live)
         /\ \/ /\ phase = "DRAINING" /\ runtime[id].phase = "RUNNING" /\ IsManaged(id)
               /\ sweep = None /\ sweep' = id /\ main = "up"
            \/ phase = "STOPPED" /\ sweep = id /\ sweep' = None
  <2>1. CASE SweepRests
    BY <1>1, <2>1, Kinds, PhaseSet DEF SweepRests, Phases
  <2>2. ASSUME NEW id \in Ids, SweepDrains(id)
        PROVE  OnlyAt(id, "DRAINING", runtime[id].live)
    BY <1>1, <2>2, PhaseSet DEF SweepDrains, Phases
  <2> QED
    BY <2>1, <2>2 DEF SweepDrains, Phases
<1>3. Steady
  BY <1>1, <1>2 DEF Steady, OnlyAt
<1>4. RequestsInv'
  BY <1>1, <1>3, SteadyFacts DEF ReloadsInv, RequestsInv
<1>5. id # None /\ (IsManaged(id) => Created(id))
  BY Names DEF IsManaged, Created
<1>6. ASSUME NEW x \in Ids
      PROVE  Serves(x)
  <2>1. CASE x # id
    <3>1. runtime'[x] = runtime[x] /\ (sweep' = x <=> sweep = x)
      BY <1>2, <2>1, Names DEF OnlyAt
    <3> QED
      BY <1>1, <3>1, ServesOn DEF StartingOn, LeasedOn
  <2>2. CASE x = id
    <3>1. /\ runtime[id].live => IsManaged(id)
          /\ Starters(id) # {} => runtime[id].phase = "STARTING"
          /\ sweep = id => runtime[id].phase = "DRAINING"
          /\ id \in sessions => Created(id)
      BY DEF ReloadsInv, RuntimesInv
    <3>2. runtime'[id].phase = phase /\ runtime'[id].live = runtime[id].live
      BY <1>2 DEF OnlyAt
    <3> QED
      BY <1>1, <1>2, <1>5, <2>2, <3>1, <3>2, HoldersAre DEF Serves, StartingOn, LeasedOn
  <2> QED
    BY <2>1, <2>2
<1>7. TypeOK'
  <2>1. sweep' \in Ids \cup {None}
    BY <1>2
  <2> QED
    BY <1>1, <1>2, <2>1, Kinds, ServiceTypes DEF OnlyAt, TypeOK
<1>8. sweep' # None => main = "up"
  BY <1>2
<1> QED
  BY <1>1, <1>3, <1>4, <1>6, <1>7, <1>8, ServiceKeeps DEF ServiceStep

-----------------------------------------------------------------------------
(* The watcher's and lifespan's own steps, but for the publication: they   *)
(* mark a runtime or let it rest, and close sessions.                      *)

Marked(id) ==
    \/ runtime'[id] = runtime[id]
    \/ /\ runtime'[id].phase \in {"DRAINING", "STOPPED"} /\ runtime'[id].live = runtime[id].live
       /\ runtime[id].phase # "STARTING" /\ sweep # id
       /\ Registered(id) /\ Created(id)

QuietStep ==
    /\ Steady
    /\ UNCHANGED request
    /\ sessions' \subseteq sessions
    /\ sweep' \in {sweep, None}
    /\ \A id \in Ids : Marked(id)

LEMMA QuietKeeps ==
    ASSUME ReloadsInv, QuietStep
    PROVE  /\ RuntimesInv' /\ RequestsInv' /\ RegistryInv' /\ RetiredInv'
           /\ \A id : (Holders(id) = {})' <=> Holders(id) = {}
           /\ \A id \in Ids : runtime'[id] = runtime[id] =>
                /\ Gone(id) => Gone(id)'
                /\ AtRest(id) => AtRest(id)'
<1> USE DEF ReloadsInv
<1>1. Steady /\ UNCHANGED request /\ \A id \in Ids : Marked(id)
  BY DEF QuietStep
<1>2. UNCHANGED <<registry, snapshots>>
  BY <1>1 DEF Steady, snapshotVars
<1>3. /\ \A id : Registered(id)' <=> Registered(id)
      /\ \A id \in Ids : Created(id)' <=> Created(id)
      /\ \A id \in Ids : IsManaged(id)' <=> IsManaged(id)
      /\ RegistryInv'
  BY <1>1, SteadyFacts
<1>4. \A id : /\ (Holders(id) = {})' <=> Holders(id) = {}
              /\ (Starters(id) = {})' <=> Starters(id) = {}
  BY <1>1 DEF Holders, Starters
<1>5. \A id \in Ids : /\ id \in sessions' => id \in sessions
                      /\ sweep' = id => sweep = id
  BY Names DEF QuietStep
<1>6. RuntimesInv'
  <2> SUFFICES ASSUME NEW id \in Ids
               PROVE  /\ runtime'[id].live => IsManaged(id)
                      /\ runtime'[id].phase = "STARTING" => IsManaged(id)
                      /\ runtime'[id].phase = "DRAINING" => Created(id)
                      /\ Created(id) => id[2] <= snapshots
                      /\ (Starters(id) # {})' => runtime'[id].phase = "STARTING"
                      /\ sweep' = id => runtime'[id].phase = "DRAINING"
                      /\ id \in sessions' => Created(id)
    BY <1>2, <1>3 DEF RuntimesInv
  <2>1. Marked(id)
    BY <1>1
  <2> QED
    BY <1>4, <1>5, <2>1 DEF RuntimesInv, Marked
<1>7. RequestsInv'
  BY <1>1, <1>3 DEF RequestsInv
<1>8. \A id \in Ids : runtime'[id] = runtime[id] =>
        /\ Gone(id) => Gone(id)'
        /\ AtRest(id) => AtRest(id)'
  BY <1>4, <1>5 DEF Gone, AtRest
<1>9. RetiredInv'
  BY <1>1, <1>3, <1>8 DEF RetiredInv, Marked
<1> QED
  BY <1>3, <1>4, <1>6, <1>7, <1>8, <1>9

(* The runtimes and the registry stay as they are. *)
LEMMA StillQuiet ==
    ASSUME UNCHANGED <<snapshotVars, runtime, request>>, sessions' \subseteq sessions,
           sweep' \in {sweep, None}
    PROVE  QuietStep
BY DEF QuietStep, Steady, Marked

(* The file is written, or the watcher looks at it and publishes nothing. *)
LEMMA LookSteps ==
    ASSUME ReloadsInv,
           \/ Write \/ StartWithoutFile \/ StartStamps \/ StartFails
           \/ Poll \/ LoadRejected
    PROVE  ReloadsInv'
<1> USE DEF ReloadsInv
<1>1. UNCHANGED <<candidate, todo, abandoned, snapshotVars, runtime, request, sessions, sweep, cleaning>>
  BY DEF Write, StartWithoutFile, StartStamps, StartFails, Poll, LoadRejected, reloadVars,
         mainVars
<1>2. QuietStep
  BY <1>1, StillQuiet
<1>3. RuntimesInv' /\ RequestsInv' /\ RegistryInv' /\ RetiredInv'
  BY <1>2, QuietKeeps
<1>4. TypeOK'
  <2>1. /\ file' \in [content : Contents \cup {Missing}, mtime : 0 .. MaxWrites]
        /\ seen' \in 0 .. MaxWrites \cup {None}
    BY ReloadAssumption DEF Write, StartWithoutFile, StartStamps, StartFails, Poll, LoadRejected, TypeOK,
                            fileVars
  <2>2. /\ watcher' \in {"boot", "stamp", "poll", "load", "mark", "drain", "stop", "close",
                         "crashed", "done"}
        /\ main' \in {"starting", "up", "joined", "stopped", "mark", "drain", "down", "aborted"}
    BY DEF Write, StartWithoutFile, StartStamps, StartFails, Poll, LoadRejected, TypeOK, reloadVars,
           mainVars
  <2> QED
    BY <1>1, <2>1, <2>2 DEF TypeOK, snapshotVars
<1>5. CountInv' /\ PlaceInv'
  <2>1. snapshots \in Nat /\ seen \in Nat \cup {None} /\ file.mtime \in Nat
                          /\ snapshots' = snapshots /\ None \notin Nat
    BY <1>1, Kinds, Names DEF snapshotVars
  <2>2. CountInv'
    BY <2>1 DEF CountInv, Reloading, Write, StartWithoutFile, StartStamps, StartFails, Poll,
                LoadRejected, fileVars, reloadVars
  <2>3. PlaceInv'
    BY <1>1 DEF PlaceInv, ShuttingDown, Write, StartWithoutFile, StartStamps, StartFails, Poll,
                LoadRejected, reloadVars, mainVars
  <2> QED
    BY <2>2, <2>3
<1>6. ReloadInv'
  <2>1. CASE Write
    BY <1>1, <2>1 DEF ReloadInv, Write, reloadVars, Retired, Retiring, Current, Gone, Holders, Starters,
                      Listed, snapshotVars, Loads
  <2>2. CASE ~Write
    BY <2>2 DEF ReloadInv, Reloading, StartWithoutFile, StartStamps, StartFails, Poll, LoadRejected
  <2> QED
    BY <2>1, <2>2
<1>7. CleanupInv'
  BY <1>1 DEF CleanupInv, PlaceInv, ShuttingDown, Cleanup, Listed, Current, Cleaning, IsManaged, AtRest,
              Holders, Starters, snapshotVars,
              Write, StartWithoutFile, StartStamps, StartFails, Poll, LoadRejected, mainVars
<1>8. DrainInv'
  BY <1>1 DEF DrainInv, PlaceInv, Reloading, Retired, Listed, Current, snapshotVars,
              Write, StartWithoutFile, StartStamps, StartFails, Poll, LoadRejected, mainVars,
              reloadVars
<1> QED
  BY <1>3, <1>4, <1>5, <1>6, <1>7, <1>8

(* The steps of a reload on the runtime it retires, up to the publication. *)
ClosedOne == Closed /\ todo' # {}

LEMMA RetireQuiet ==
    ASSUME ReloadsInv,
           LoadRetires \/ MarkDraining \/ Drained \/ Stopped \/ ClosedOne \/ CloseFails
    PROVE  /\ QuietStep /\ TypeOK'
           /\ UNCHANGED <<file, seen, snapshotVars, request, sweep, main, cleaning>>
           /\ \A id \in Ids : runtime'[id] # runtime[id] => id = Retiring /\ MarkDraining
           /\ MarkDraining => OnlyAt(Retiring, "DRAINING", runtime[Retiring].live)
           /\ main \notin ShuttingDown \cup {"starting"}
           /\ watcher \notin {"boot", "stamp", "done", "poll"}
<1> USE DEF ReloadsInv
<1>1. /\ UNCHANGED <<file, seen, snapshotVars, request, sweep, main, cleaning>>
      /\ sessions' \subseteq sessions
      /\ watcher \in {"load"} \cup Reloading
  BY DEF LoadRetires, MarkDraining, Drained, Stopped, ClosedOne, Closed, CloseFails, fileVars, reloadVars,
         mainVars, ClosedSessions, Reloading
<1>2. MarkDraining => /\ OnlyAt(Retiring, "DRAINING", runtime[Retiring].live)
                      /\ Marked(Retiring) /\ Retiring \in Ids
  <2> SUFFICES ASSUME MarkDraining
               PROVE  /\ OnlyAt(Retiring, "DRAINING", runtime[Retiring].live)
                      /\ Marked(Retiring) /\ Retiring \in Ids
    OBVIOUS
  <2>1. Retiring \in Ids /\ Registered(Retiring) /\ Created(Retiring)
    BY RetiringIs DEF MarkDraining, Reloading
  <2>2. OnlyAt(Retiring, "DRAINING", runtime[Retiring].live)
    BY <2>1, PhaseSet DEF MarkDraining, Phases
  <2> QED
    BY <2>1, <2>2 DEF Marked, OnlyAt, MarkDraining, Locked
<1>3. ~MarkDraining => UNCHANGED runtime
  BY DEF LoadRetires, MarkDraining, Drained, Stopped, ClosedOne, Closed, CloseFails
<1>4. \A id \in Ids : runtime'[id] # runtime[id] => id = Retiring /\ MarkDraining
  BY <1>2, <1>3 DEF OnlyAt
<1>5. Steady
  BY <1>1, <1>2, <1>3 DEF Steady, OnlyAt
<1>6. QuietStep
  BY <1>1, <1>2, <1>4, <1>5 DEF QuietStep, Marked
<1>7. TypeOK'
  <2>1. runtime' \in [Ids -> RuntimeRecord]
    BY <1>2, <1>3, Kinds DEF OnlyAt
  <2>2. watcher' \in {"mark", "drain", "stop", "close", "poll", "crashed"}
    BY DEF LoadRetires, MarkDraining, Drained, Stopped, ClosedOne, Closed, CloseFails
  <2>3. candidate' \in Contents \cup {None} /\ todo' \in SUBSET Paths
    BY Kinds DEF LoadRetires, MarkDraining, Drained, Stopped, ClosedOne, Closed, CloseFails, Loads,
                 TypeOK,
                 Retired, Listed
  <2>4. abandoned' \in SUBSET Paths
    BY DEF LoadRetires, MarkDraining, Drained, Stopped, ClosedOne, Closed, CloseFails, TypeOK, Retired,
           Listed
  <2> QED
    BY <1>1, <2>1, <2>2, <2>3, <2>4
    DEF TypeOK, snapshotVars, RuntimeRecord, InPlaces, Phases
<1>8. main \notin ShuttingDown \cup {"starting"} /\ watcher \notin {"boot", "stamp", "done", "poll"}
  BY <1>1 DEF PlaceInv, Reloading
<1> QED
  BY <1>1, <1>2, <1>4, <1>6, <1>7, <1>8

LEMMA RetireSteps ==
    ASSUME ReloadsInv,
           LoadRetires \/ MarkDraining \/ Drained \/ Stopped \/ ClosedOne \/ CloseFails
    PROVE  ReloadsInv'
<1> USE DEF ReloadsInv
<1>1. /\ QuietStep /\ TypeOK'
      /\ UNCHANGED <<file, seen, snapshotVars, request, sweep, main, cleaning>>
      /\ \A id \in Ids : runtime'[id] # runtime[id] => id = Retiring /\ MarkDraining
      /\ MarkDraining => OnlyAt(Retiring, "DRAINING", runtime[Retiring].live)
      /\ main \notin ShuttingDown \cup {"starting"}
      /\ watcher \notin {"boot", "stamp", "done", "poll"}
  BY RetireQuiet
<1>2. RuntimesInv' /\ RequestsInv' /\ RegistryInv' /\ RetiredInv'
  BY <1>1, QuietKeeps
<1>3. /\ Listed' = Listed
      /\ \A p : Current(p)' = Current(p)
      /\ candidate' = candidate => Retired(candidate)' = Retired(candidate)
  BY <1>1, SteadyFacts DEF QuietStep
<1>4. \A p \in Listed : Current(p) \in Ids /\ Current(p)[1] = p
  BY CurrentIs
<1>5. watcher' \in {"mark", "drain", "stop", "close", "poll", "crashed"}
  BY DEF LoadRetires, MarkDraining, Drained, Stopped, ClosedOne, Closed, CloseFails
<1>6. CountInv' /\ PlaceInv'
  <2>1. snapshots \in Nat /\ seen \in Nat \cup {None} /\ None \notin Nat /\ snapshots' = snapshots
    BY <1>1, Kinds, Names DEF snapshotVars
  <2>2. watcher \in {"load"} \cup Reloading
    BY DEF LoadRetires, MarkDraining, Drained, Stopped, ClosedOne, Closed, CloseFails, Reloading
  <2>3. CountInv'
    BY <1>1, <1>5, <2>1, <2>2 DEF CountInv, Reloading
  <2> QED
    BY <1>1, <1>5, <2>3 DEF PlaceInv
<1>7. CleanupInv'
  BY <1>1, <1>3 DEF CleanupInv, Cleanup, ShuttingDown
<1>8. ReloadInv' /\ DrainInv'
  <2>1. CASE LoadRetires
    <3>1. Retired(candidate)' = Retired(file.content) /\ UNCHANGED runtime
      BY <1>1, <1>3, <2>1 DEF LoadRetires, Retired, snapshotVars
    <3>2. ReloadInv'
      BY <2>1, <3>1, Kinds DEF LoadRetires, ReloadInv, Loads, TypeOK
    <3>3. DrainInv'
      BY <1>1, <1>3, <2>1, <3>1 DEF LoadRetires, DrainInv, Reloading
    <3> QED
      BY <3>2, <3>3
  <2>2. CASE watcher \in Reloading
    <3>1. /\ Lowest(todo) \in todo /\ Lowest(todo) \in Retired(candidate)
          /\ Retiring \in Ids
          /\ todo \subseteq Retired(candidate)
      BY <2>2, RetiringIs DEF ReloadInv
    <3>2. \A p \in Listed : Current(p) = Retiring => p = Lowest(todo)
      BY CurrentIs DEF Retiring
    <3>3. \A p \in Retired(candidate) \ todo : Gone(Current(p))'
      <4>1. ASSUME NEW p \in Retired(candidate) \ todo
            PROVE  Current(p) \in Ids /\ Gone(Current(p)) /\ runtime'[Current(p)] = runtime[Current(p)]
        BY <1>1, <1>4, <2>2, <3>1, <3>2 DEF ReloadInv, Retired
      <4>2. \A id \in Ids : runtime'[id] = runtime[id] /\ Gone(id) => Gone(id)'
        BY <1>1, QuietKeeps
      <4> QED
        BY <1>3, <4>1, <4>2 DEF Gone, Holders, Starters
    <3>4. /\ \A id : (\A r \in Requests : ~LeasedOn(r, id)') <=> (\A r \in Requests : ~LeasedOn(r, id))
          /\ UNCHANGED request
      BY <1>1 DEF LeasedOn
    <3>5. CASE todo' = todo
      <4>1. Retiring' = Retiring /\ candidate' = candidate /\ Retired(candidate)' = Retired(candidate)
        BY <1>3, <2>2, <3>5, <3>1 DEF Retiring, Reloading, LoadRetires, MarkDraining, Drained, Stopped,
                ClosedOne, Closed, CloseFails
      <4>2. /\ watcher' \in {"drain", "stop", "close"}
            /\ runtime'[Retiring].phase = "DRAINING" /\ sweep' # Retiring
            /\ watcher' \in {"stop", "close"} => Holders(Retiring) = {}
            /\ watcher' = "close" => ~runtime'[Retiring].live
        BY <1>1, <2>2, <3>1, <3>5 DEF ReloadInv, OnlyAt, Reloading, LoadRetires, MarkDraining,
                Drained, Stopped, ClosedOne, Closed, CloseFails, Locked
      <4>3. ReloadInv'
        BY <1>1, <2>2, <3>1, <3>3, <3>4, <3>5, <4>1, <4>2, HoldersAre
        DEF ReloadInv, Loads, Holders, Starters, LeasedOn
      <4>4. DrainInv'
        <5> SUFFICES ASSUME main = "up", NEW p \in Listed, runtime'[Current(p)].phase = "DRAINING"
                     PROVE  \/ sweep = Current(p) \/ p \in abandoned
                            \/ p \in Retired(candidate) \ todo \/ p = Lowest(todo)
          BY <1>1, <1>3, <2>2, <3>5, <4>1, <4>2 DEF DrainInv, Reloading, MarkDraining, Drained, Stopped,
                ClosedOne, Closed, CloseFails, LoadRetires
        <5>1. CASE runtime'[Current(p)] = runtime[Current(p)]
          BY <5>1, <2>2 DEF DrainInv
        <5>2. CASE runtime'[Current(p)] # runtime[Current(p)]
          BY <1>1, <1>4, <3>2, <5>2
        <5> QED
          BY <5>1, <5>2
      <4> QED
        BY <4>3, <4>4
    <3>6. CASE todo' # todo
      <4>1. /\ ClosedOne \/ CloseFails
            /\ UNCHANGED runtime
            /\ watcher = "close"
        BY <2>2, <3>6 DEF Reloading, LoadRetires, MarkDraining, Drained, Stopped, ClosedOne, Closed,
                          CloseFails
      <4>2. ASSUME main = "up", NEW p \in Listed, runtime[Current(p)].phase = "DRAINING"
            PROVE  \/ sweep = Current(p) \/ p \in abandoned
                   \/ p \in Retired(candidate) \ (todo \ {Lowest(todo)})
        BY <3>1, <4>1, <4>2 DEF DrainInv
      <4>3. CASE ClosedOne
        <5>1. /\ todo' = todo \ {Lowest(todo)} /\ todo' # {} /\ watcher' = "mark"
              /\ candidate' = candidate /\ abandoned' = abandoned
              /\ sessions' = ClosedSessions
          BY <4>3 DEF ClosedOne, Closed
        <5>2. PICK id \in Ids : id = Retiring
          BY <3>1
        <5>3. Gone(id)'
          <6>1. /\ runtime[id].phase = "DRAINING" /\ sweep # id
                /\ Holders(id) = {} /\ ~runtime[id].live
            BY <2>2, <4>1, <5>2 DEF ReloadInv
          <6>2. Starters(id) = {}
            BY <6>1 DEF RuntimesInv
          <6>3. id \notin sessions'
            BY <5>1, <5>2 DEF ClosedSessions, Retiring, Current
          <6> QED
            BY <1>1, <4>1, <6>1, <6>2, <6>3 DEF Gone, Holders, Starters
        <5>4. \A p \in Retired(candidate) \ todo' : Gone(Current(p))'
          <6>1. ASSUME NEW p \in Retired(candidate) \ todo', p \notin Retired(candidate) \ todo
                PROVE  Gone(Current(p))'
            <7>1. p = Lowest(todo)
              BY <3>1, <5>1, <6>1
            <7>2. Current(p)' = id
              BY <1>3, <5>2, <7>1 DEF Retiring
            <7> QED
              BY <5>3, <7>2 DEF Gone, Holders, Starters
          <6> QED
            BY <3>3, <6>1
        <5>5. ReloadInv'
          BY <1>3, <2>2, <3>1, <5>1, <5>4 DEF ReloadInv, Loads
        <5>6. DrainInv'
          BY <1>1, <1>3, <4>1, <4>2, <5>1 DEF DrainInv, Reloading
        <5> QED
          BY <5>5, <5>6
      <4>4. CASE CloseFails
        <5>1. /\ watcher' \in {"poll", "crashed"}
              /\ abandoned' = abandoned \cup (Retired(candidate) \ (todo \ {Lowest(todo)}))
          BY <4>4 DEF CloseFails
        <5>2. ReloadInv'
          BY <5>1 DEF ReloadInv, Reloading
        <5>3. DrainInv'
          BY <1>1, <1>3, <4>1, <4>2, <5>1 DEF DrainInv, Reloading
        <5> QED
          BY <5>2, <5>3
      <4> QED
        BY <4>1, <4>3, <4>4
    <3> QED
      BY <3>5, <3>6
  <2> QED
    BY <2>1, <2>2 DEF LoadRetires, MarkDraining, Drained, Stopped, ClosedOne, Closed, CloseFails,
                      Reloading
<1> QED
  BY <1>1, <1>2, <1>6, <1>7, <1>8

(* Lifespan ends: no new work, no reload, and every process stopped. *)
LEMMA MainQuiet ==
    ASSUME ReloadsInv,
           BeginShutdown \/ StopWatcher \/ BeginCleanup \/ CleanupMarks \/ CleanupStops \/ CleanupEnds
    PROVE  /\ QuietStep /\ TypeOK'
           /\ UNCHANGED <<fileVars, snapshotVars, request, candidate, todo, abandoned>>
           /\ CleanupMarks \/ CleanupStops \/ UNCHANGED runtime
           /\ CleanupMarks => OnlyAt(Cleaning, "DRAINING", runtime[Cleaning].live)
           /\ CleanupStops => OnlyAt(Cleaning, "STOPPED", runtime[Cleaning].live)
           /\ main # "up" => sweep = None
<1> USE DEF ReloadsInv
<1>1. /\ UNCHANGED <<fileVars, snapshotVars, request, candidate, todo, abandoned>>
      /\ sessions' \subseteq sessions
      /\ sweep' \in {sweep, None}
      /\ CleanupMarks \/ CleanupStops \/ UNCHANGED runtime
      /\ main # "up" => sweep = None
  BY DEF BeginShutdown, StopWatcher, BeginCleanup, CleanupMarks, CleanupStops, CleanupEnds, reloadVars,
         PlaceInv
<1>2. CleanupMarks => /\ OnlyAt(Cleaning, "DRAINING", runtime[Cleaning].live)
                      /\ Marked(Cleaning)
  <2> SUFFICES ASSUME CleanupMarks
               PROVE  /\ OnlyAt(Cleaning, "DRAINING", runtime[Cleaning].live)
                      /\ Marked(Cleaning)
    OBVIOUS
  <2>1. Cleaning \in Ids /\ Registered(Cleaning) /\ Created(Cleaning)
    BY CleaningIs DEF CleanupMarks
  <2>2. OnlyAt(Cleaning, "DRAINING", runtime[Cleaning].live)
    BY <2>1, PhaseSet DEF CleanupMarks, Phases
  <2> QED
    BY <2>1, <2>2 DEF Marked, OnlyAt, CleanupMarks, Locked
<1>3. CleanupStops => /\ OnlyAt(Cleaning, "STOPPED", runtime[Cleaning].live)
                      /\ Marked(Cleaning)
  <2> SUFFICES ASSUME CleanupStops
               PROVE  /\ OnlyAt(Cleaning, "STOPPED", runtime[Cleaning].live)
                      /\ Marked(Cleaning)
    OBVIOUS
  <2>1. cleaning # {} /\ runtime[Cleaning].phase = "DRAINING"
    BY DEF CleanupStops, CleanupInv
  <2>2. Cleaning \in Ids /\ Registered(Cleaning) /\ Created(Cleaning)
    BY <2>1, CleaningIs
  <2>3. OnlyAt(Cleaning, "STOPPED", runtime[Cleaning].live)
    BY <2>2, PhaseSet DEF CleanupStops, Phases
  <2>4. sweep # Cleaning
    BY <1>1, <2>2, Names DEF CleanupStops
  <2> QED
    BY <2>1, <2>2, <2>3, <2>4 DEF Marked, OnlyAt
<1>4. \A id \in Ids : Marked(id)
  BY <1>1, <1>2, <1>3 DEF OnlyAt, Marked
<1>5. Steady
  BY <1>1, <1>2, <1>3 DEF Steady, OnlyAt
<1>6. TypeOK'
  <2>1. runtime' \in [Ids -> RuntimeRecord]
    BY <1>1, <1>2, <1>3, Kinds DEF OnlyAt
  <2>2. /\ watcher' \in {watcher, "done"}
        /\ main' \in {"joined", "stopped", "aborted", "mark", "drain", "down"}
        /\ cleaning' \in SUBSET Paths
    BY DEF BeginShutdown, StopWatcher, BeginCleanup, CleanupMarks, CleanupStops, CleanupEnds, reloadVars,
           TypeOK,
           Listed
  <2> QED
    BY <1>1, <2>1, <2>2
    DEF TypeOK, fileVars, snapshotVars, RuntimeRecord, InPlaces, Phases
<1> QED
  BY <1>1, <1>2, <1>3, <1>4, <1>5, <1>6 DEF QuietStep

LEMMA MainSteps ==
    ASSUME ReloadsInv,
           BeginShutdown \/ StopWatcher \/ BeginCleanup \/ CleanupMarks \/ CleanupStops \/ CleanupEnds
    PROVE  ReloadsInv'
<1> USE DEF ReloadsInv
<1>1. /\ QuietStep /\ TypeOK'
      /\ UNCHANGED <<fileVars, snapshotVars, request, candidate, todo, abandoned>>
      /\ CleanupMarks \/ CleanupStops \/ UNCHANGED runtime
      /\ CleanupMarks => OnlyAt(Cleaning, "DRAINING", runtime[Cleaning].live)
      /\ CleanupStops => OnlyAt(Cleaning, "STOPPED", runtime[Cleaning].live)
      /\ main # "up" => sweep = None
  BY MainQuiet
<1>2. RuntimesInv' /\ RequestsInv' /\ RegistryInv' /\ RetiredInv'
  BY <1>1, QuietKeeps
<1>3. /\ Listed' = Listed
      /\ \A p : Current(p)' = Current(p)
      /\ \A id \in Ids : IsManaged(id)' <=> IsManaged(id)
      /\ Retired(candidate)' = Retired(candidate)
  BY <1>1, SteadyFacts DEF QuietStep
<1>4. \A p \in Listed : Current(p) \in Ids
  BY CurrentIs
<1>5. /\ main' \in {"joined", "stopped", "aborted", "mark", "drain", "down"}
      /\ main' \in Cleanup => ~BeginShutdown /\ ~StopWatcher
      /\ watcher' # watcher => watcher' = "done"
      /\ BeginShutdown \/ StopWatcher => main \in {"up", "joined"} /\ UNCHANGED cleaning
      /\ ~(BeginShutdown \/ StopWatcher) => main \in ShuttingDown /\ watcher' = watcher
  BY DEF BeginShutdown, StopWatcher, BeginCleanup, CleanupMarks, CleanupStops, CleanupEnds, Cleanup,
         ShuttingDown,
         reloadVars
<1>6. CountInv' /\ PlaceInv'
  <2>1. CountInv'
    BY <1>1, <1>5 DEF CountInv, fileVars, snapshotVars, Reloading
  <2>2. (main' \in ShuttingDown => watcher' = "done") /\ watcher' \notin {"boot", "stamp"}
    BY <1>5 DEF PlaceInv, ShuttingDown, StopWatcher, BeginShutdown
  <2>3. sweep' = None
    BY <1>1 DEF QuietStep, BeginShutdown, StopWatcher, BeginCleanup, CleanupMarks, CleanupStops,
                CleanupEnds
  <2> QED
    BY <1>5, <2>1, <2>2, <2>3 DEF PlaceInv
<1>7. ReloadInv'
  <2> SUFFICES ASSUME watcher \in Reloading, watcher' = watcher
               PROVE  ReloadInv'
    BY <1>5 DEF ReloadInv, Reloading
  <2>1. UNCHANGED runtime /\ Retiring' = Retiring /\ Retiring \in Ids
    BY <1>1, <1>3, RetiringIs DEF PlaceInv, ShuttingDown, Cleanup, Reloading, CleanupMarks, CleanupStops,
                                  Retiring
  <2>2. \A p \in Retired(candidate) \ todo : Gone(Current(p))'
    <3>1. \A p \in Retired(candidate) : Current(p) \in Ids
      BY <1>4 DEF Retired
    <3>2. \A id \in Ids : Gone(id) => Gone(id)'
      BY <1>1, <2>1, QuietKeeps
    <3> QED
      BY <1>3, <3>1, <3>2 DEF ReloadInv, Gone, Holders, Starters
  <2>3. sweep # Retiring => sweep' # Retiring
    BY <1>1, <2>1, Names DEF QuietStep
  <2> QED
    BY <1>1, <1>3, <2>1, <2>2, <2>3 DEF ReloadInv, Loads, Holders
<1>8. CleanupInv'
  <2>1. CASE BeginShutdown \/ StopWatcher
    BY <1>3, <1>5, <2>1 DEF CleanupInv, BeginShutdown, StopWatcher, Cleanup
  <2>2. CASE BeginCleanup
    BY <1>3, <1>4, <2>2 DEF CleanupInv, BeginCleanup, Cleanup
  <2>3. CASE CleanupMarks \/ CleanupStops
    <3>1. cleaning # {} /\ main \in {"mark", "drain"}
      BY <2>3 DEF CleanupMarks, CleanupStops, CleanupInv
    <3>2. PICK id \in Ids : id = Cleaning
      BY <3>1, CleaningIs
    <3>3. Lowest(cleaning) \in cleaning /\ Lowest(cleaning) \in Listed
      BY <3>1, CleaningIs
    <3>4. \A p \in Listed \ cleaning : runtime'[Current(p)] = runtime[Current(p)]
      BY <1>1, <1>4, <2>3, <3>3, CurrentIs DEF OnlyAt, Cleaning
    <3>5. \A p \in Listed \ cleaning : IsManaged(Current(p)) => AtRest(Current(p))'
      <4>1. \A x \in Ids : runtime'[x] = runtime[x] /\ AtRest(x) => AtRest(x)'
        BY <1>1, QuietKeeps
      <4> QED
        BY <1>3, <1>4, <3>1, <3>4, <4>1 DEF CleanupInv, Cleanup, AtRest, Holders, Starters
    <3>6. CASE CleanupMarks
      <4>1. main' = "drain" /\ cleaning' = cleaning
        BY <3>6 DEF CleanupMarks
      <4>2. Cleaning' = id /\ runtime'[id].phase = "DRAINING"
        BY <1>1, <1>3, <3>2, <3>6, <4>1 DEF Cleaning, OnlyAt
      <4> QED
        BY <1>3, <1>4, <3>1, <3>5, <4>1, <4>2 DEF CleanupInv, Cleanup
    <3>7. CASE CleanupStops
      <4>1. main' = "mark" /\ cleaning' = cleaning \ {Lowest(cleaning)}
        BY <3>7 DEF CleanupStops
      <4>2. AtRest(id)'
        <5>1. /\ Holders(id) = {} /\ ~runtime[id].live /\ runtime[id].phase = "DRAINING"
              /\ runtime'[id].phase = "STOPPED" /\ ~runtime'[id].live
          BY <1>1, <3>2, <3>7 DEF CleanupStops, CleanupInv, OnlyAt
        <5>2. Starters(id) = {}
          BY <5>1 DEF RuntimesInv
        <5> QED
          BY <1>1, <5>1, <5>2 DEF AtRest, Holders, Starters
      <4>3. \A p \in Listed \ cleaning' : IsManaged(Current(p)) => AtRest(Current(p))'
        <5>1. ASSUME NEW p \in Listed \ cleaning', p \notin Listed \ cleaning
              PROVE  AtRest(Current(p))'
          <6>1. p = Lowest(cleaning)
            BY <4>1, <5>1
          <6>2. Current(p)' = id
            BY <1>3, <3>2, <6>1 DEF Cleaning
          <6> QED
            BY <4>2, <6>2 DEF AtRest, Holders, Starters
        <5> QED
          BY <3>5, <5>1
      <4> QED
        BY <1>3, <1>4, <4>1, <4>3 DEF CleanupInv, Cleanup
    <3> QED
      BY <2>3, <3>6, <3>7
  <2>4. CASE CleanupEnds
    <3>1. UNCHANGED <<runtime, cleaning, request>> /\ main = "mark" /\ main' = "down" /\ cleaning = {}
      BY <1>1, <2>4 DEF CleanupEnds
    <3> QED
      BY <1>3, <1>4, <3>1 DEF CleanupInv, Cleanup, AtRest, Holders, Starters
  <2> QED
    BY <2>1, <2>2, <2>3, <2>4
<1>9. DrainInv'
  BY <1>5 DEF DrainInv
<1> QED
  BY <1>1, <1>2, <1>6, <1>7, <1>8, <1>9

-----------------------------------------------------------------------------
(* The publication, the one step that changes the registry.                *)

(* A runtime leaves the registry, stays in it or is made for it. *)
LEMMA Published ==
    ASSUME ReloadsInv, NEW config \in Contents, Publish(config), snapshots <= MaxWrites
    PROVE  /\ snapshots' = snapshots + 1 /\ snapshots' \in Snapshots
           /\ published' = config.inPlace /\ applied' = config
           /\ abandoned' = abandoned \ Retired(config)
           /\ registry' \in [Paths -> Snapshots \cup {None}]
           /\ runtime' \in [Ids -> RuntimeRecord]
           /\ Listed' = {p \in Paths : config.endpoints[p] # None}
           /\ \A id \in Ids :
                \/ /\ ~Registered(id)' /\ runtime'[id] = runtime[id]
                   /\ Registered(id) => id[1] \in Retired(config)
                \/ /\ Registered(id)' /\ Registered(id) /\ id[1] \notin Retired(config)
                   /\ runtime'[id].core = runtime[id].core
                   /\ runtime'[id].core = config.endpoints[id[1]]
                   /\ runtime'[id].inPlace = config.inPlace
                   /\ runtime'[id].phase = runtime[id].phase
                   /\ runtime'[id].live = runtime[id].live
                \/ /\ Registered(id)' /\ ~Created(id) /\ id[2] = snapshots'
                   /\ config.endpoints[id[1]] \in Cores
                   /\ runtime'[id] = FromConfig(config.endpoints[id[1]], config.inPlace)
<1> USE DEF ReloadsInv
<1>1. /\ snapshots' = snapshots + 1
      /\ published' = config.inPlace /\ applied' = config
      /\ abandoned' = abandoned \ Retired(config)
  BY DEF Publish
<1>2. snapshots \in Nat /\ snapshots' \in Snapshots /\ None \notin Snapshots
  BY <1>1, Kinds, Names DEF Snapshots
<1>3. registry' = [p \in Paths |-> IF config.endpoints[p] = None THEN None
                                   ELSE IF p \in Listed \ Retired(config) THEN registry[p]
                                   ELSE snapshots']
  BY DEF Publish
<1>4. registry' \in [Paths -> Snapshots \cup {None}]
  BY <1>2, <1>3, Kinds
<1>5. \A p \in Listed : registry[p] # None /\ p \in Paths
  BY DEF Listed
<1>6. Listed' = {p \in Paths : config.endpoints[p] # None}
  BY <1>2, <1>3, <1>4, <1>5, Names DEF Listed
<1>7. config.endpoints \in [Paths -> Cores \cup {None}] /\ config.inPlace \in InPlaces
  BY Names DEF InPlaces
<1>8. runtime' = [id \in Ids |-> IF registry'[id[1]] # id[2] THEN runtime[id]
                                 ELSE IF id[2] = snapshots'
                                 THEN FromConfig(config.endpoints[id[1]], config.inPlace)
                                 ELSE [runtime[id] EXCEPT !.inPlace = config.inPlace]]
  BY DEF Publish
<1>9. ASSUME NEW id \in Ids
      PROVE  /\ runtime'[id] \in RuntimeRecord
             /\ \/ /\ ~Registered(id)' /\ runtime'[id] = runtime[id]
                   /\ Registered(id) => id[1] \in Retired(config)
                \/ /\ Registered(id)' /\ Registered(id) /\ id[1] \notin Retired(config)
                   /\ runtime'[id].core = runtime[id].core
                   /\ runtime'[id].core = config.endpoints[id[1]]
                   /\ runtime'[id].inPlace = config.inPlace
                   /\ runtime'[id].phase = runtime[id].phase
                   /\ runtime'[id].live = runtime[id].live
                \/ /\ Registered(id)' /\ ~Created(id) /\ id[2] = snapshots'
                   /\ config.endpoints[id[1]] \in Cores
                   /\ runtime'[id] = FromConfig(config.endpoints[id[1]], config.inPlace)
  <2>1. PICK p \in Paths, k \in Snapshots : id = <<p, k>>
    BY DEF Ids
  <2>2. id[1] = p /\ id[2] = k /\ k \in Nat /\ k # None
    BY <2>1, Names
  <2>3. runtime[id] \in RuntimeRecord
    BY Kinds
  <2>4. Registered(id) => p \in Listed /\ id = Current(p) /\ Created(id)
    BY <2>2, CurrentIs DEF RegistryInv
  <2>5. Created(id) => k <= snapshots
    BY <2>2 DEF RuntimesInv
  <2>6. CASE registry'[p] # k
    <3>1. runtime'[id] = runtime[id] /\ ~Registered(id)'
      BY <1>8, <2>2, <2>6 DEF Registered
    <3>2. ASSUME Registered(id)
          PROVE  p \in Retired(config)
      <4>1. config.endpoints[p] = None => runtime[Current(p)].core # config.endpoints[p]
        BY <2>4, <3>2 DEF Created
      <4>2. registry[p] = k
        BY <2>2, <3>2 DEF Registered
      <4> QED
        BY <1>3, <2>4, <2>6, <3>2, <4>1, <4>2 DEF Retired
    <3> QED
      BY <2>2, <2>3, <3>1, <3>2
  <2>7. CASE registry'[p] = k /\ k = snapshots'
    <3>1. ~Created(id)
      BY <1>1, <1>2, <2>5, <2>7
    <3>2. config.endpoints[p] \in Cores
      BY <1>3, <1>7, <2>2, <2>7
    <3>3. runtime'[id] = FromConfig(config.endpoints[p], config.inPlace)
      BY <1>8, <2>2, <2>7
    <3>4. FromConfig(config.endpoints[p], config.inPlace) \in RuntimeRecord
      BY <1>7, <3>2 DEF FromConfig, RuntimeRecord, Phases
    <3> QED
      BY <2>2, <2>7, <3>1, <3>2, <3>3, <3>4 DEF Registered
  <2>8. CASE registry'[p] = k /\ k # snapshots'
    <3>1. p \in Listed \ Retired(config) /\ registry[p] = k
      BY <1>3, <2>2, <2>8
    <3>2. runtime'[id] = [runtime[id] EXCEPT !.inPlace = config.inPlace]
      BY <1>8, <2>2, <2>8
    <3>3. runtime[id].core = config.endpoints[p]
      BY <2>2, <2>4, <3>1 DEF Retired, Registered
    <3> QED
      BY <1>7, <2>2, <2>3, <2>8, <3>1, <3>2, <3>3 DEF Registered, RuntimeRecord
  <2> QED
    BY <2>6, <2>7, <2>8
<1>10. runtime' \in [Ids -> RuntimeRecord]
  BY <1>8, <1>9
<1> QED
  BY <1>1, <1>2, <1>4, <1>6, <1>9, <1>10

(* Only runtimes of which nothing is left may be dropped. *)
LEMMA PublishKeeps ==
    ASSUME ReloadsInv, NEW config \in Contents, Loads(config), Publish(config),
           snapshots <= MaxWrites,
           UNCHANGED <<request, sweep, main, cleaning>>, sessions' \subseteq sessions,
           main \notin ShuttingDown,
           watcher \in Reloading => candidate = config,
           \A p \in Retired(config) :
               LET id == Current(p) IN
               /\ runtime[id].phase = "DRAINING" /\ ~runtime[id].live
               /\ Holders(id) = {} /\ sweep # id /\ id \notin sessions',
           watcher' \notin Reloading
    PROVE  RuntimesInv' /\ RequestsInv' /\ RegistryInv' /\ RetiredInv'
           /\ ReloadInv' /\ CleanupInv' /\ DrainInv'
<1> USE DEF ReloadsInv
<1> DEFINE Dropped(id) == /\ ~Registered(id)' /\ runtime'[id] = runtime[id]
                          /\ Registered(id) => id[1] \in Retired(config)
           Kept(id) == /\ Registered(id)' /\ Registered(id) /\ id[1] \notin Retired(config)
                       /\ runtime'[id].core = runtime[id].core
                       /\ runtime'[id].core = config.endpoints[id[1]]
                       /\ runtime'[id].inPlace = config.inPlace
                       /\ runtime'[id].phase = runtime[id].phase
                       /\ runtime'[id].live = runtime[id].live
           Made(id) == /\ Registered(id)' /\ ~Created(id) /\ id[2] = snapshots'
                       /\ config.endpoints[id[1]] \in Cores
                       /\ runtime'[id] = FromConfig(config.endpoints[id[1]], config.inPlace)
<1>1. /\ snapshots' = snapshots + 1 /\ snapshots' \in Snapshots
      /\ published' = config.inPlace /\ applied' = config
      /\ abandoned' = abandoned \ Retired(config)
      /\ registry' \in [Paths -> Snapshots \cup {None}]
      /\ Listed' = {p \in Paths : config.endpoints[p] # None}
      /\ \A id \in Ids : Dropped(id) \/ Kept(id) \/ Made(id)
  BY Published
<1>2. /\ snapshots \in Nat /\ None \notin Cores /\ None \notin Snapshots
      /\ \A id \in Ids : id[2] \in Nat /\ id[1] \in Paths
  BY Kinds, Names DEF Ids
<1>3. \A id : /\ (Holders(id) = {})' <=> Holders(id) = {}
              /\ (Starters(id) = {})' <=> Starters(id) = {}
  BY DEF Holders, Starters
<1>4. ASSUME NEW id \in Ids, Made(id)
      PROVE  /\ Holders(id) = {} /\ Starters(id) = {} /\ sweep # id /\ id \notin sessions
             /\ runtime'[id].core = config.endpoints[id[1]] /\ runtime'[id].core \in Cores
             /\ runtime'[id].inPlace = config.inPlace
             /\ ~runtime'[id].live /\ runtime'[id].phase \in {"STOPPED", "RUNNING"}
  <2>1. ~Created(id)
    BY <1>4
  <2>2. sweep # id /\ id \notin sessions
    BY <2>1 DEF RuntimesInv
  <2>3. Holders(id) = {} /\ Starters(id) = {}
    BY <2>1 DEF RequestsInv, Holders, Starters
  <2> QED
    BY <1>4, <2>2, <2>3 DEF FromConfig
<1>5. \A id \in Ids : Created(id)' <=> Created(id) \/ Made(id)
  BY <1>1, <1>2, <1>4 DEF Created
<1>6. RuntimesInv'
  <2> SUFFICES ASSUME NEW id \in Ids
               PROVE  /\ runtime'[id].live => IsManaged(id)'
                      /\ runtime'[id].phase = "STARTING" => IsManaged(id)'
                      /\ runtime'[id].phase = "DRAINING" => Created(id)'
                      /\ Created(id)' => id[2] <= snapshots'
                      /\ (Starters(id) # {})' => runtime'[id].phase = "STARTING"
                      /\ sweep' = id => runtime'[id].phase = "DRAINING"
                      /\ id \in sessions' => Created(id)'
    BY DEF RuntimesInv
  <2>1. CASE Made(id)
    BY <1>1, <1>2, <1>3, <1>4, <1>5, <2>1 DEF Snapshots
  <2>2. CASE Dropped(id) \/ Kept(id)
    BY <1>1, <1>2, <1>3, <1>5, <2>2 DEF RuntimesInv, IsManaged
  <2> QED
    BY <1>1, <2>1, <2>2
<1>7. RequestsInv'
  BY <1>5 DEF RequestsInv
<1>8. ASSUME NEW p \in Paths, registry'[p] # None
      PROVE  \E id \in Ids : id = Current(p)' /\ id[1] = p /\ (Kept(id) \/ Made(id))
  <2>1. registry'[p] \in Snapshots
    BY <1>1, <1>8
  <2>2. PICK id \in Ids : id = <<p, registry'[p]>>
    BY <2>1 DEF Ids
  <2>3. id = Current(p)' /\ id[1] = p /\ Registered(id)'
    BY <2>2 DEF Current, Registered
  <2> QED
    BY <1>1, <2>3
<1>9. RegistryInv'
  <2>1. ASSUME NEW p \in Paths, registry'[p] # None
        PROVE  /\ runtime'[Current(p)'].core = config.endpoints[p]
               /\ runtime'[Current(p)'].inPlace = config.inPlace
               /\ Created(Current(p))'
    <3>1. PICK id \in Ids : id = Current(p)' /\ id[1] = p /\ (Kept(id) \/ Made(id))
      BY <1>8, <2>1
    <3>2. Kept(id) => Created(id)
      BY CurrentIs DEF RegistryInv
    <3> QED
      BY <1>4, <1>5, <3>1, <3>2 DEF Created
  <2>2. \A p : p \in Listed' <=> p \in Paths /\ registry'[p] # None
    BY DEF Listed
  <2>3. OneSnapshot'
    BY <1>1, <2>1, <2>2 DEF OneSnapshot
  <2>4. applied' # None /\ Loads(applied)'
    BY <1>1, Names DEF Loads
  <2> QED
    BY <2>1, <2>2, <2>3, <2>4 DEF RegistryInv
<1>10. RetiredInv'
  <2> SUFFICES ASSUME NEW id \in Ids, Created(id)', ~Registered(id)'
               PROVE  Gone(id)'
    BY DEF RetiredInv
  <2>1. Created(id) /\ runtime'[id] = runtime[id] /\ (Registered(id) => id[1] \in Retired(config))
    BY <1>1, <1>5
  <2>2. CASE Registered(id)
    <3>1. /\ runtime[id].phase = "DRAINING" /\ ~runtime[id].live
          /\ Holders(id) = {} /\ sweep # id /\ id \notin sessions'
      BY <2>1, <2>2, CurrentIs
    <3>2. Starters(id) = {}
      BY <3>1 DEF RuntimesInv
    <3> QED
      BY <1>3, <2>1, <3>1, <3>2 DEF Gone
  <2>3. CASE ~Registered(id)
    BY <1>3, <2>1, <2>3 DEF RetiredInv, Gone
  <2> QED
    BY <2>2, <2>3
<1>11. ReloadInv'
  BY DEF ReloadInv
<1>12. CleanupInv'
  BY DEF CleanupInv, Cleanup, ShuttingDown
<1>13. DrainInv'
  <2> SUFFICES ASSUME main \in {"starting", "up"}, NEW p \in Listed',
         runtime'[Current(p)'].phase = "DRAINING"
               PROVE  sweep = Current(p)' \/ p \in abandoned'
    BY DEF DrainInv
  <2>1. PICK id \in Ids : id = Current(p)' /\ id[1] = p /\ (Kept(id) \/ Made(id))
    BY <1>8 DEF Listed
  <2>2. Kept(id) /\ id[1] = p
    BY <1>4, <2>1
  <2>3. p \in Listed /\ id = Current(p) /\ runtime[id].phase = "DRAINING" /\ p \notin Retired(config)
    BY <2>1, <2>2, CurrentIs
  <2>4. watcher \in Reloading => Lowest(todo) \in Retired(config)
    BY RetiringIs
  <2> QED
    BY <1>1, <2>1, <2>3, <2>4 DEF DrainInv
<1> QED
  BY <1>6, <1>7, <1>9, <1>10, <1>11, <1>12, <1>13

LEMMA PublishTypes ==
    ASSUME ReloadsInv, NEW config \in Contents, Publish(config), snapshots <= MaxWrites,
           UNCHANGED <<file, seen, request, sweep, main, cleaning>>, sessions' \subseteq sessions,
           watcher' \in {"stamp", "poll"}, candidate' \in Contents \cup {None}, todo' \in SUBSET Paths
    PROVE  TypeOK'
<1>1. /\ snapshots' = snapshots + 1 /\ snapshots' \in Snapshots
      /\ published' = config.inPlace /\ applied' = config
      /\ abandoned' = abandoned \ Retired(config)
      /\ registry' \in [Paths -> Snapshots \cup {None}]
      /\ runtime' \in [Ids -> RuntimeRecord]
  BY Published
<1>2. snapshots' \in 0 .. MaxWrites + 1
  BY <1>1, Names, Kinds DEF Snapshots, ReloadsInv
<1> QED
  BY <1>1, <1>2 DEF ReloadsInv, TypeOK, RuntimeRecord, InPlaces, Phases

(* The reload's last endpoint has ended. *)
ClosedLast == Closed /\ todo' = {}

LEMMA PublishSteps ==
    ASSUME ReloadsInv, StartLoads \/ LoadApplies \/ ClosedLast
    PROVE  ReloadsInv'
<1> USE DEF ReloadsInv
<1>1. PICK config \in Contents :
         /\ Loads(config) /\ Publish(config)
         /\ watcher \in Reloading => candidate = config
         /\ \A p \in Retired(config) :
              LET id == Current(p) IN
              /\ runtime[id].phase = "DRAINING" /\ ~runtime[id].live
              /\ Holders(id) = {} /\ sweep # id /\ id \notin sessions'
  <2>1. CASE StartLoads
    <3>1. file.content \in Contents /\ Loads(file.content) /\ Publish(file.content) /\ watcher = "boot"
      BY <2>1 DEF StartLoads, Loads, TypeOK
    <3>2. Listed = {}
      <4>1. snapshots = 0 /\ RuntimesInv /\ RegistryInv
        BY <3>1 DEF CountInv
      <4>2. \A p \in Listed : Current(p) \in Ids /\ Created(Current(p))
        BY CurrentIs DEF RegistryInv
      <4>3. \A id \in Ids : ~(id[2] <= 0)
        BY Names DEF Ids, Snapshots
      <4> QED
        BY <4>1, <4>2, <4>3 DEF RuntimesInv
    <3> QED
      BY <3>1, <3>2 DEF Reloading, Retired
  <2>2. CASE LoadApplies
    BY <2>2 DEF LoadApplies, Loads, TypeOK, Reloading
  <2>3. CASE ClosedLast
    <3>1. watcher = "close" /\ candidate \in Contents /\ Loads(candidate) /\ Publish(candidate)
      BY <2>3 DEF ClosedLast, Closed, ReloadInv, Reloading
    <3>2. /\ todo = {Lowest(todo)} /\ todo \subseteq Retired(candidate)
          /\ runtime[Retiring].phase = "DRAINING" /\ sweep # Retiring
          /\ Holders(Retiring) = {} /\ ~runtime[Retiring].live
          /\ \A p \in Retired(candidate) \ todo : Gone(Current(p))
      BY <2>3, <3>1 DEF ClosedLast, Closed, ReloadInv, Reloading
    <3>3. Retiring \notin sessions' /\ sessions' \subseteq sessions
      BY <2>3 DEF ClosedLast, Closed, ClosedSessions, Retiring, Current
    <3>4. ASSUME NEW p \in Retired(candidate)
          PROVE  LET id == Current(p) IN
                 /\ runtime[id].phase = "DRAINING" /\ ~runtime[id].live
                 /\ Holders(id) = {} /\ sweep # id /\ id \notin sessions'
      <4>1. CASE p \in todo
        BY <3>2, <3>3, <4>1 DEF Retiring
      <4>2. CASE p \notin todo
        BY <3>2, <3>3, <4>2 DEF Gone
      <4> QED
        BY <4>1, <4>2
    <3> QED
      BY <3>1, <3>4
  <2> QED
    BY <2>1, <2>2, <2>3
<1>2. /\ UNCHANGED <<file, seen, request, sweep, main, cleaning>> /\ sessions' \subseteq sessions
      /\ \/ watcher = "boot" /\ watcher' = "stamp"
         \/ watcher \in {"load"} \cup Reloading /\ watcher' = "poll"
      /\ candidate' \in Contents \cup {None} /\ todo' \in SUBSET Paths
  BY DEF StartLoads, LoadApplies, ClosedLast, Closed, ClosedSessions, fileVars, mainVars, TypeOK,
         Reloading
<1>3. snapshots \in Nat /\ seen \in Nat \cup {None} /\ file.mtime <= MaxWrites /\ file.mtime \in Nat
      /\ None \notin Nat /\ MaxWrites \in Nat
  BY Kinds, Names DEF TypeOK
<1>4. snapshots <= MaxWrites
  BY <1>2, <1>3 DEF CountInv, Reloading
<1>5. TypeOK'
  BY <1>1, <1>2, <1>4, PublishTypes
<1>6. main \notin ShuttingDown
  BY <1>2 DEF PlaceInv, Reloading
<1>7. /\ RuntimesInv' /\ RequestsInv' /\ RegistryInv' /\ RetiredInv'
      /\ ReloadInv' /\ CleanupInv' /\ DrainInv'
  <2>1. watcher' \notin Reloading
    BY <1>2 DEF Reloading
  <2> QED
    BY <1>1, <1>2, <1>4, <1>6, <2>1, PublishKeeps
<1>8. CountInv' /\ PlaceInv'
  <2>1. snapshots' = snapshots + 1
    BY <1>1 DEF Publish
  <2>2. CountInv'
    BY <1>2, <1>3, <2>1 DEF CountInv, Reloading
  <2>3. PlaceInv'
    BY <1>2, <1>6 DEF PlaceInv, Reloading
  <2> QED
    BY <2>2, <2>3
<1> QED
  BY <1>5, <1>7, <1>8

-----------------------------------------------------------------------------
LEMMA InitHolds == Init => ReloadsInv
<1> SUFFICES ASSUME Init
             PROVE  ReloadsInv
  OBVIOUS
<1>1. /\ registry = [p \in Paths |-> None] /\ runtime = [id \in Ids |-> NoRuntime]
      /\ request = [r \in Requests |-> Idle]
      /\ sessions = {} /\ sweep = None /\ main = "starting" /\ cleaning = {}
      /\ watcher = "boot" /\ candidate = None /\ todo = {} /\ abandoned = {}
      /\ seen = None /\ published = None /\ snapshots = 0 /\ applied = None
      /\ file.mtime = 0
  BY DEF Init
<1>2. TypeOK
  <2>1. file \in [content : Contents \cup {Missing}, mtime : 0 .. MaxWrites]
    BY ReloadAssumption DEF Init
  <2>2. NoRuntime \in RuntimeRecord /\ Idle \in RequestRecord
    BY DEF NoRuntime, RuntimeRecord, Idle, RequestRecord, InPlaces, Phases
  <2> QED
    BY <1>1, <2>1, <2>2, ReloadAssumption
    DEF TypeOK, RuntimeRecord, RequestRecord, InPlaces, Phases
<1>3. /\ \A id \in Ids : runtime[id] = NoRuntime /\ ~Created(id)
      /\ \A r \in Requests : request[r] = Idle
      /\ Listed = {}
  BY <1>1 DEF Created, NoRuntime, Listed
<1>4. CountInv /\ PlaceInv
  BY <1>1, Names DEF CountInv, PlaceInv, ShuttingDown, Reloading
<1>5. RuntimesInv /\ RequestsInv /\ RetiredInv
  <2>1. \A id \in Ids : Starters(id) = {}
    BY <1>3 DEF Starters, Idle
  <2> QED
    BY <1>1, <1>3, <2>1, Names DEF RuntimesInv, RequestsInv, RetiredInv, NoRuntime, Idle
<1>6. RegistryInv
  BY <1>1, <1>3 DEF RegistryInv, OneSnapshot
<1>7. ReloadInv /\ CleanupInv /\ DrainInv
  BY <1>1, <1>3 DEF ReloadInv, CleanupInv, DrainInv, Reloading, Cleanup
<1> QED
  BY <1>2, <1>4, <1>5, <1>6, <1>7 DEF ReloadsInv

LEMMA StutterKeeps == ReloadsInv /\ UNCHANGED vars => ReloadsInv'
<1> SUFFICES ASSUME ReloadsInv, UNCHANGED vars
             PROVE  ReloadsInv'
  OBVIOUS
<1> USE DEF ReloadsInv, vars, fileVars, reloadVars, snapshotVars, mainVars
<1>1. TypeOK' /\ CountInv' /\ PlaceInv'
  BY DEF TypeOK, CountInv, PlaceInv
<1>2. RuntimesInv' /\ RequestsInv' /\ RegistryInv' /\ RetiredInv'
  BY QuietKeeps, StillQuiet
<1>3. ReloadInv' /\ CleanupInv' /\ DrainInv'
  BY DEF ReloadInv, CleanupInv, DrainInv, Retired, Retiring, Cleaning, Current, Listed, Loads, Gone,
         AtRest,
         IsManaged, Holders, Starters
<1> QED
  BY <1>1, <1>2, <1>3

LEMMA NextKeeps == ReloadsInv /\ [Next]_vars => ReloadsInv'
<1> SUFFICES ASSUME ReloadsInv, [Next]_vars
             PROVE  ReloadsInv'
  OBVIOUS
<1>1. CASE WatcherStep
  <2>1. Closed => ClosedOne \/ ClosedLast
    BY DEF ClosedOne, ClosedLast
  <2> QED
    BY <1>1, <2>1, LookSteps, RetireSteps, PublishSteps DEF WatcherStep
<1>2. CASE \E id \in Ids : StartStep(id) \/ Die(id) \/ ExitReported(id) \/ Restart(id) \/ SweepDrains(id)
  BY <1>2, ProcessSteps, StartSteps, SweepSteps DEF StartStep
<1>3. CASE \E r \in Requests : \/ Capture(r) \/ Grant(r) \/ Activate(r) \/ Reject(r) \/ Finish(r)
                               \/ OpenSession(r)
  BY <1>3, RequestSteps, StartSteps
<1>4. CASE Write \/ CloseSession \/ SweepRests \/ BeginShutdown \/ MainStep
  BY <1>4, LookSteps, RequestSteps, SweepSteps, MainSteps DEF MainStep
<1>5. CASE UNCHANGED vars
  BY <1>5, StutterKeeps
<1> QED
  BY <1>1, <1>2, <1>3, <1>4, <1>5 DEF Next, Running

-----------------------------------------------------------------------------
LEMMA ReloadsInvariant == Spec => []ReloadsInv
BY InitHolds, NextKeeps, PTL DEF Spec

(* Every variable keeps its type: so no interleaving runs out of snapshots *)
(* or drains a path that is not in the registry.                           *)
THEOREM TypeCorrect == Spec => []TypeOK
<1>1. ReloadsInv => TypeOK
  BY DEF ReloadsInv
<1> QED
  BY <1>1, ReloadsInvariant, PTL

(* apply_configuration never lets a reader see half of a configuration:    *)
(* the registry, the runtimes and the security snapshot are of one file.   *)
THEOREM SingleSnapshot == Spec => []OneSnapshot
<1>1. ReloadsInv => OneSnapshot
  BY DEF ReloadsInv, RegistryInv
<1> QED
  BY <1>1, ReloadsInvariant, PTL

(* drain_and_stop leaves nothing of a runtime that the registry drops, and *)
(* no request that still refers to it brings anything back.                *)
THEOREM RetiredGone == Spec => []RetiredIsGone
<1>1. ReloadsInv => RetiredIsGone
  BY DEF ReloadsInv, RetiredInv, RetiredIsGone, Gone
<1> QED
  BY <1>1, ReloadsInvariant, PTL

(* Two live processes never have one port, since drain_and_stop awaits the *)
(* exit of the old one before its successor can be activated.              *)
THEOREM PortsExclusive == Spec => []PortsAreExclusive
<1>1. ASSUME ReloadsInv
      PROVE  PortsAreExclusive
  <2> SUFFICES ASSUME NEW i \in Ids, NEW j \in Ids, i # j, runtime[i].live, runtime[j].live
               PROVE  Port[runtime[i].core] # Port[runtime[j].core]
    BY DEF PortsAreExclusive
  <2>1. ASSUME NEW id \in Ids, runtime[id].live
        PROVE  id[1] \in Listed /\ id = Current(id[1]) /\ IsManaged(id)
    <3>1. IsManaged(id) /\ Created(id)
      BY <1>1, <2>1, Names DEF ReloadsInv, RuntimesInv, IsManaged, Created
    <3>2. Registered(id)
      BY <1>1, <2>1, <3>1 DEF ReloadsInv, RetiredInv, Gone
    <3> QED
      BY <1>1, <3>1, <3>2, CurrentIs DEF ReloadsInv
  <2>2. /\ i[1] \in Listed /\ i = Current(i[1]) /\ IsManaged(i)
        /\ j[1] \in Listed /\ j = Current(j[1]) /\ IsManaged(j)
    BY <2>1
  <2>3. /\ i[1] # j[1] /\ i[1] \in Paths /\ j[1] \in Paths
    BY <2>2 DEF Listed
  <2>4. /\ Loads(applied)
        /\ runtime[i].core = applied.endpoints[i[1]] /\ runtime[j].core = applied.endpoints[j[1]]
    BY <1>1, <2>2, <2>3 DEF ReloadsInv, RegistryInv, OneSnapshot
  <2> QED
    BY <2>2, <2>3, <2>4 DEF Loads, IsManaged
<1> QED
  BY <1>1, ReloadsInvariant, PTL

(* An endpoint of the registry is DRAINING only on behalf of someone who   *)
(* will end it, or after a reload that failed.                             *)
THEOREM DrainingEnded == Spec => []DrainingEnds
<1>1. ASSUME ReloadsInv
      PROVE  DrainingEnds
  <2>1. watcher \in Reloading => Lowest(todo) \in Retired(candidate)
    BY <1>1, RetiringIs
  <2> QED
    BY <1>1, <2>1 DEF ReloadsInv, DrainInv, DrainingEnds, Reloading
<1> QED
  BY <1>1, ReloadsInvariant, PTL

(* When the finally block of lifespan has ended, nothing is left of any    *)
(* managed runtime, in the registry or dropped from it.                    *)
THEOREM NothingSurvives == Spec => []NothingSurvivesShutdown
<1>1. ASSUME ReloadsInv
      PROVE  NothingSurvivesShutdown
  <2> SUFFICES ASSUME main = "down", NEW id \in Ids, IsManaged(id)
               PROVE  ~runtime[id].live /\ Holders(id) = {} /\ Starters(id) = {}
    BY DEF NothingSurvivesShutdown
  <2>1. CASE Registered(id)
    <3>1. id[1] \in Listed /\ id = Current(id[1])
      BY <1>1, <2>1, CurrentIs DEF ReloadsInv
    <3>2. AtRest(id)
      BY <1>1, <3>1 DEF ReloadsInv, CleanupInv, Cleanup
    <3> QED
      BY <3>2 DEF AtRest
  <2>2. CASE ~Registered(id)
    <3>1. Created(id)
      BY Names DEF IsManaged, Created
    <3> QED
      BY <1>1, <2>2, <3>1 DEF ReloadsInv, RetiredInv, Gone
  <2> QED
    BY <2>1, <2>2
<1> QED
  BY <1>1, ReloadsInvariant, PTL
=============================================================================
