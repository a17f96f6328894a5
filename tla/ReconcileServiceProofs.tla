----------------------- MODULE ReconcileServiceProofs -----------------------
(***************************************************************************)
(* Proofs about what the services of a host run on.  No container runs on  *)
(* a volume that podman made up, as long as no input drops a volume whose  *)
(* deletion it allows: whatever else is removed, a volume is deleted only  *)
(* between the stop of its service, which takes its containers with it,    *)
(* and the first start of a service that requires it.  A run that succeeds *)
(* has brought about what its input says, the running containers included; *)
(* a container that is up to date is not taken down; and a run that        *)
(* nothing disturbs succeeds.                                              *)
(***************************************************************************)
EXTENDS ReconcileSettleProofs

\* A volume that some input drops is one no input lets be deleted.
VolumesKept ==
    \A v \in Volume :
        \/ \A in \in Inputs : in.unit[v] # None
        \/ \A in \in Inputs : in.unit[v] # None => ~(in.unit[v].allowed /\ in.unit[v].reclaim)

(***************************************************************************)
(* The invariant.                                                          *)
(***************************************************************************)

\* The unit file of a volume is that of some input, or half written.
FromInput ==
    \A v \in Volume : \/ installed[v] \in {None, Torn}
                      \/ \E in \in Inputs : installed[v] = in.unit[v]

\* A service that does not run and that no running container can make run.
Idle(v) ==
    /\ ~Active(v)
    /\ \/ loaded[v] = None
       \/ \A c \in Container : IsRunning(c) /\ loaded[c] # None => v \notin loaded[c].refs

\* No volume is deleted before its service is stopped.
StoppedFirst ==
    \A s \in todo : s.op = "DeletePodmanVolume" => Stop(s.unit) \in todo \/ Idle(s.unit)

\* What runs has its volume, as its unit declares it.
Declared ==
    \A v \in Volume :
        /\ resource[v] # Implicit
        /\ Active(v) => resource[v] # None
        /\ loaded[v] # None => loaded[v].def # None

(***************************************************************************)
(* The steps.                                                              *)
(***************************************************************************)
\* A unit is of one type.
LEMMA VolumeIsUnit ==
    ASSUME NEW v \in Volume
    PROVE  v \in Resource /\ v \in Unit /\ v \notin Container /\ v \notin Network /\ v \notin Build
  BY UnitTypesDisjoint DEF Resource, Unit

\* A volume, network or build is no container.
LEMMA ResourceIsUnit ==
    ASSUME NEW r \in Resource
    PROVE  r \in Unit /\ r \notin Container
  BY UnitTypesDisjoint DEF Resource, Unit

\* A plan deletes a volume only to recreate it, and then stops its service.
LEMMA PlanStopsFirst ==
    ASSUME IInv, VolumesKept, FromInput, NEW in \in Inputs, Plan(in),
           NEW s \in todo', s.op = "DeletePodmanVolume"
    PROVE  Stop(s.unit) \in todo'
<1>1. PICK unseen \in SUBSET (Pruned(in) \cap Container) :
         todo' = BuildPlan(in) \ Ops("StopSystemdService", unseen)
  BY DEF Plan
<1>2. Plannable(in)
  BY DEF Plan
<1>3. s.unit \in (Recreated(in) \cup Reclaimed(in)) \cap Volume
  BY <1>1 DEF BuildPlan, FileOps, UnitOps, ServiceOps, Ops, ItemOps
<1>4. /\ installed[s.unit] # None /\ installed[s.unit].allowed /\ installed[s.unit].reclaim
  BY <1>1, <1>2, PlanPermitted DEF IInv, HostInv, RunInv, TypeOK
<1>5. installed[s.unit] # Torn
  BY <1>4 DEF Torn
<1>6. PICK in2 \in Inputs : installed[s.unit] = in2.unit[s.unit]
  BY <1>3, <1>4, <1>5 DEF FromInput
<1>7. in.unit[s.unit] # None
  BY <1>3, <1>4, <1>6 DEF VolumesKept
<1>8. s.unit \in Recreated(in)
  BY <1>3, <1>7 DEF Reclaimed, Pruned, Stale
<1>9. Stop(s.unit) \in BuildPlan(in)
  BY <1>8 DEF BuildPlan, ServiceOps, StopSystemdServices, Ops, Stop
<1>10. s.unit \notin unseen
  BY <1>3, VolumeIsUnit
<1> QED
  BY <1>1, <1>9, <1>10 DEF Ops, Stop

\* What is stopped does not come up again before the next daemon-reload or start.
LEMMA IdleStays ==
    ASSUME NoFailures, IInv, [Next]_vars, ~Reboot, NEW r \in Resource, Idle(r),
           \A s \in todo : Tries(s) => s.op \notin {"StartSystemdService", "DaemonReload"}
    PROVE  Idle(r)'
<1>1. r \in Unit /\ r \notin Container
  BY ResourceIsUnit
<1>2. CASE ApplyStep
  <2>1. CASE Finish
    BY <2>1 DEF Finish, host, systemd, Idle, Active, IsRunning
  <2>2. ASSUME NEW t \in todo, Tries(t) PROVE Idle(r)'
    <3>1. loaded' = loaded
      BY <2>2, TriedServices
    <3>2. \A u \in Unit : status'[u] \in {status[u], "inactive"}
      BY <2>2, TriedServices
    <3>3. Container \subseteq Unit
      BY DEF Unit
    <3> QED
      BY <1>1, <3>1, <3>2, <3>3 DEF Idle, Active, IsRunning
  <2> QED
    BY <1>2, <2>1, <2>2 DEF ApplyStep, Tries
<1>3. CASE (\E in \in Inputs : Plan(in) \/ Refuse(in)) \/ Crash \/ UNCHANGED vars
  BY <1>3 DEF Plan, Refuse, Crash, vars, host, systemd, Idle, Active, IsRunning
<1>4. ASSUME NEW d \in Container, ContainerExit(d) PROVE Idle(r)'
  <2>1. loaded' = loaded
    BY <1>4 DEF ContainerExit
  <2>2. \A u \in Unit : u # d => status'[u] = status[u]
    BY <1>4 DEF ContainerExit, IInv, HostInv, HostTyped
  <2>3. IsRunning(d)
    BY <1>4 DEF ContainerExit, Active, IsRunning
  <2>4. Container \subseteq Unit
    BY DEF Unit
  <2> QED
    BY <1>1, <2>1, <2>2, <2>3, <2>4 DEF Idle, Active, IsRunning
<1>5. ASSUME NEW d \in Container, AutoRestart(d) PROVE Idle(r)'
  <2>1. loaded' = loaded /\ IsRunning(d) /\ CanStart(d) /\ loaded[d] # None
    BY <1>5 DEF AutoRestart, IsRunning, CanStart
  <2>2. r \notin loaded[d].refs
    <3> SUFFICES ASSUME r \in loaded[d].refs PROVE FALSE
      OBVIOUS
    <3>1. loaded[r] # None
      BY <2>1 DEF CanStart, CanRun, Idle
    <3> QED
      BY <2>1, <3>1 DEF Idle
  <2>3. loaded[d].refs \subseteq Resource
    BY <2>1 DEF IInv, HostInv, HostTyped, Unit, UnitFile, Maybe
  <2>4. \A u \in Unit : status'[u] = IF u = d \/ u \in loaded[d].refs THEN "active" ELSE status[u]
    BY <1>5 DEF AutoRestart, ServiceStarts
  <2>5. \A c \in Container : c \in Unit /\ c \notin Resource
    BY UnitTypesDisjoint DEF Unit
  <2>6. ~Active(r)'
    BY <1>1, <2>2, <2>4 DEF Idle, Active
  <2>7. \A c \in Container : IsRunning(c)' => IsRunning(c)
    BY <2>1, <2>3, <2>4, <2>5 DEF IsRunning
  <2> QED
    BY <2>1, <2>6, <2>7 DEF Idle
<1> QED
  BY <1>2, <1>3, <1>4, <1>5 DEF Next

\* The stop of a service takes the containers that require it with it.
LEMMA StoppedIsIdle ==
    ASSUME NoFailures, IInv, NEW r \in Resource, NEW s \in todo, Tries(s), s = Stop(r)
    PROVE  Idle(r)'
<1>1. StopSystemdService(s) /\ s.unit = r
  BY TriedAs DEF Stop
<1>2. r \in Unit
  BY ResourceIsUnit
<1>3. CASE ServiceStops(StoppedWith(r)) /\ UNCHANGED loaded
  <2>1. status'[r] = "inactive"
    BY <1>2, <1>3 DEF ServiceStops, StoppedWith
  <2>2. ASSUME NEW c \in Container, IsRunning(c)', loaded[c] # None, r \in loaded[c].refs
        PROVE  FALSE
    <3>1. c \in Unit
      BY DEF Unit
    <3>2. c \notin StoppedWith(r)
      BY <1>3, <2>2, <3>1 DEF ServiceStops, IsRunning
    <3>3. ~IsRunning(c)
      BY <2>2, <3>2 DEF StoppedWith
    <3> QED
      BY <1>3, <2>2, <3>1, <3>2, <3>3 DEF ServiceStops, IsRunning
  <2> QED
    BY <1>3, <2>1, <2>2 DEF Idle, Active
<1>4. CASE loaded[r] = None /\ status[r] = "inactive" /\ UNCHANGED <<loaded, status>>
  BY <1>4 DEF Idle, Active
<1> QED
  BY <1>1, <1>3, <1>4, NothingFails DEF StopSystemdService, ExecUnit, Fails, NotDone, host, systemd

\* No step deletes a volume whose service might still run.
LEMMA StoppedFirstStays ==
    ASSUME NoFailures, IInv, VolumesKept, FromInput, StoppedFirst, [Next]_vars
    PROVE  StoppedFirst'
<1> SUFFICES ASSUME NEW s \in todo', s.op = "DeletePodmanVolume"
             PROVE  Stop(s.unit) \in todo' \/ Idle(s.unit)'
  BY DEF StoppedFirst
<1>1. pc' # "idle"
  BY NextKeeps DEF IInv, RunInv
<1>2. CASE \E in \in Inputs : Plan(in)
  BY <1>2, PlanStopsFirst
<1>3. CASE pc # "idle" /\ todo' \subseteq todo
  <2>1. s \in todo
    BY <1>3
  <2>2. CASE Idle(s.unit)
    <3>1. \A t \in todo : Tries(t) => t.op \notin {"StartSystemdService", "DaemonReload"}
      BY <2>1, NothingBefore DEF OpRank, Order
    <3>2. ~Reboot
      BY DEF Reboot, Ends
    <3>3. s.unit \in Resource
      BY <2>1, VolumeIsUnit DEF IInv, RunInv, RunTyped, Step
    <3> QED
      BY <2>2, <3>1, <3>2, <3>3, IdleStays
  <2>3. CASE Stop(s.unit) \in todo /\ Stop(s.unit) \notin todo'
    <3>1. ApplyStep
      BY <1>1, <1>3, <2>3
         DEF Next, Plan, Refuse, Crash, Reboot, Ends, ContainerExit, AutoRestart, vars, run
    <3>2. PICK t \in todo : Tries(t)
      BY <1>1, <3>1 DEF ApplyStep, Finish, Tries
    <3>3. t = Stop(s.unit)
      BY <2>1, <2>3, <3>2, OpTaken DEF Tries
    <3>4. s.unit \in Resource
      BY <2>1, VolumeIsUnit DEF IInv, RunInv, RunTyped, Step
    <3> QED
      BY <3>2, <3>3, <3>4, StoppedIsIdle
  <2> QED
    BY <2>1, <2>2, <2>3 DEF StoppedFirst
<1> QED
  BY <1>1, <1>2, <1>3, RunGoesOn

\* Unit files come from inputs, and only the death of a run leaves half of one.
LEMMA FromInputStays ==
    ASSUME NoFailures, IInv, FromInput, [Next]_vars
    PROVE  FromInput'
<1> SUFFICES ASSUME NEW v \in Volume
             PROVE  \/ installed'[v] \in {None, Torn}
                    \/ \E in \in Inputs : installed'[v] = in.unit[v]
  BY DEF FromInput
<1>1. v \in Unit /\ v \notin Container
  BY VolumeIsUnit
<1>2. CASE installed'[v] = installed[v]
  BY <1>2 DEF FromInput
<1>3. CASE ApplyStep
  <2>1. CASE Finish
    BY <1>2, <2>1 DEF Finish, host, disk
  <2>2. ASSUME NEW s \in todo, Tries(s)
        PROVE  \/ installed'[v] \in {None, Torn}
               \/ \E in \in Inputs : installed'[v] = in.unit[v]
    <3>1. goal \in Inputs
      BY <2>2 DEF IInv, RunInv, RunTyped, Maybe
    <3>2. installed'[v] \in {goal.unit[v], None, installed[v]}
      BY <1>1, <2>2, TriedUnits DEF UnitsAfter, Rendered
    <3> QED
      BY <1>2, <3>1, <3>2
  <2> QED
    BY <1>3, <2>1, <2>2 DEF ApplyStep, Tries
<1>4. CASE Crash
  BY <1>1, <1>2, <1>4 DEF Crash, IInv, HostInv, HostTyped
<1>5. CASE (\E in \in Inputs : Plan(in) \/ Refuse(in)) \/ Reboot \/ UNCHANGED vars
  BY <1>2, <1>5 DEF Plan, Refuse, Reboot, vars, host, disk
<1>6. CASE \E c \in Container : ContainerExit(c) \/ AutoRestart(c)
  BY <1>2, <1>6 DEF ContainerExit, AutoRestart, disk
<1> QED
  BY <1>3, <1>4, <1>5, <1>6 DEF Next

\* What does not run a service leaves every resource as it is or deletes it, makes
\* nothing active, and creates no container.
Quiescent ==
    /\ \A r \in Resource : resource'[r] \in {resource[r], None} /\ (Active(r)' => Active(r))
    /\ \A c \in Container : ran'[c] # None => ran[c] # None /\ ran'[c].resource = ran[c].resource
    /\ loaded' \in {loaded, Generated}

\* A reload only lets the application read its configDirs again.
LEMMA ReloadRereads ==
    ASSUME IInv, NEW s \in todo, ReloadSystemdService(s)
    PROVE  Quiescent
<1>1. UNCHANGED <<resource, status, loaded>>
  BY Zenon DEF ReloadSystemdService, ExecUnit, Fails, host, podman, systemd
<1>2. \/ UNCHANGED host
      \/ ran' = [ran EXCEPT ![s.unit].dirs = dirs[s.unit]] /\ Active(s.unit)
  BY Zenon DEF ReloadSystemdService, ExecUnit, Fails
<1>3. ASSUME NEW c \in Container, ran'[c] # None
      PROVE  ran[c] # None /\ ran'[c].resource = ran[c].resource
  <2>1. CASE UNCHANGED host
    BY <1>3, <2>1 DEF host, systemd
  <2>2. CASE ran' = [ran EXCEPT ![s.unit].dirs = dirs[s.unit]] /\ Active(s.unit) /\ c # s.unit
    BY <1>3, <2>2 DEF IInv, HostInv, HostTyped
  <2>3. CASE ran' = [ran EXCEPT ![s.unit].dirs = dirs[s.unit]] /\ Active(s.unit) /\ c = s.unit
    <3>1. ran[c] # None /\ ran[c] \in Snapshot
      BY <2>3 DEF IInv, HostInv, HostTyped, ActiveWasCreated, Maybe
    <3>2. ran'[c] = [ran[c] EXCEPT !.dirs = dirs[c]]
      BY <2>3 DEF IInv, HostInv, HostTyped
    <3> QED
      BY <3>1, <3>2 DEF Snapshot
  <2> QED
    BY <1>2, <2>1, <2>2, <2>3
<1> QED
  BY <1>1, <1>3 DEF Quiescent, Active

\* Whatever happens runs a service or does not.
LEMMA StartsOrQuiescent ==
    ASSUME NoFailures, IInv, [Next]_vars
    PROVE  \/ Quiescent
           \/ \E c \in Container : CanStart(c) /\ ServiceStarts(c) /\ UNCHANGED loaded
<1>1. CASE UNCHANGED <<resource, loaded, status, ran>>
  BY <1>1 DEF Quiescent, Active
<1>2. ASSUME NEW r \in Unit, resource' = [resource EXCEPT ![r] = None], UNCHANGED systemd
      PROVE  Quiescent
  BY <1>2, ResourceIsUnit DEF Quiescent, Active, systemd, IInv, HostInv, HostTyped
<1>3. ASSUME NEW s \in todo, Tries(s)
      PROVE  \/ Quiescent
             \/ \E c \in Container : CanStart(c) /\ ServiceStarts(c) /\ UNCHANGED loaded
  <2>1. CASE s.op \notin {"DeletePodmanVolume", "DeletePodmanNetwork", "DeletePodmanImage",
                          "StopSystemdService", "DaemonReload", "ReloadSystemdService",
                          "StartSystemdService"}
    BY <1>1, <1>3, <2>1 DEF Tries,
           PullPodmanImage, StopSystemdService, WriteFsContainerConfigFile,
           DeleteFsContainerConfigFile, DeleteFsContainerConfig, WriteFsContainerConfigDir,
           DeleteFsContainerConfigDir, WriteFsBuildContextFile, DeleteFsBuildContextFile,
           DeleteFsBuildContext, DeletePodmanSecret, UpsertPodmanSecret, WriteFsQuadletUnitFile,
           DeleteFsQuadletUnitFile, DeletePodmanVolume,
           DeletePodmanNetwork, DeletePodmanImage, DaemonReload, ReloadSystemdService,
           StartSystemdService, Due, Exec, ExecUnit, Fails, FilesWritten, host, podman, systemd
  <2>2. CASE s.op \in {"DeletePodmanVolume", "DeletePodmanNetwork", "DeletePodmanImage"}
    <3>1. s.unit \in Unit
      BY <2>2 DEF IInv, RunInv, RunTyped, Step, Unit, Resource
    <3>2. Remove(s) \/ UNCHANGED host
      BY <1>3, <2>2, TriedAs
         DEF DeletePodmanVolume, DeletePodmanNetwork, DeletePodmanImage, Exec, ExecUnit, Fails
    <3> QED
      BY <1>1, <1>2, <3>1, <3>2 DEF Remove, host, podman, systemd
  <2>3. CASE s.op = "StopSystemdService"
    <3>1. StopSystemdService(s)
      BY <1>3, <2>3, TriedAs
    <3>2. CASE ServiceStops(StoppedWith(s.unit)) /\ UNCHANGED <<podman, loaded>>
      BY <3>2, ResourceIsUnit DEF ServiceStops, Quiescent, Active, podman
    <3>3. CASE UNCHANGED host
      BY <1>1, <3>3 DEF host, podman, systemd
    <3> QED
      BY <3>1, <3>2, <3>3 DEF StopSystemdService, ExecUnit, Fails
  <2>4. CASE s.op = "DaemonReload"
    BY <1>3, <2>4, TriedAs, NothingFails DEF DaemonReload, Quiescent, Active, podman
  <2>5. CASE s.op = "ReloadSystemdService"
    BY <1>3, <2>5, TriedAs, ReloadRereads
  <2>6. CASE s.op = "StartSystemdService"
    <3>1. StartSystemdService(s)
      BY <1>3, <2>6, TriedAs
    <3>2. s.unit \in Container /\ s.unit \in Unit
      BY <2>6 DEF IInv, RunInv, RunTyped, Step, Unit
    <3>3. CASE UNCHANGED host
      BY <1>1, <3>3 DEF host, podman, systemd
    <3>4. CASE CanStart(s.unit) /\ ServiceStarts(s.unit) /\ UNCHANGED loaded
      BY <3>2, <3>4
    <3>5. CASE /\ UNCHANGED <<podman, loaded, ran>>
               /\ \E to : status' = [status EXCEPT ![s.unit] = to]
      BY <3>2, <3>5, ResourceIsUnit DEF Quiescent, Active, podman, IInv, HostInv, HostTyped
    <3> QED
      BY <3>1, <3>3, <3>4, <3>5 DEF StartSystemdService
  <2> QED
    BY <2>1, <2>2, <2>3, <2>4, <2>5, <2>6
<1>4. CASE ApplyStep
  <2>1. CASE Finish
    BY <1>1, <2>1 DEF Finish, host, podman, systemd
  <2> QED
    BY <1>3, <1>4, <2>1 DEF ApplyStep, Tries
<1>5. CASE (\E in \in Inputs : Plan(in) \/ Refuse(in)) \/ Crash \/ UNCHANGED vars
  BY <1>1, <1>5 DEF Plan, Refuse, Crash, vars, host, podman, systemd
<1>6. CASE Reboot
  BY <1>6, ResourceIsUnit DEF Reboot, Quiescent, Active, podman
<1>7. ASSUME NEW c \in Container, ContainerExit(c)
      PROVE  Quiescent
  BY <1>7, ResourceIsUnit DEF ContainerExit, Quiescent, Active, podman, IInv, HostInv, HostTyped
<1>8. ASSUME NEW c \in Container, AutoRestart(c)
      PROVE  CanStart(c) /\ ServiceStarts(c) /\ UNCHANGED loaded
  BY <1>8 DEF AutoRestart
<1> QED
  BY <1>4, <1>5, <1>6, <1>7, <1>8 DEF Next

\* A start makes the missing volumes as their units declare them.
LEMMA StartDeclares ==
    ASSUME IInv, Declared, NEW c \in Container, CanStart(c), ServiceStarts(c), NEW v \in Volume
    PROVE  resource'[v] # Implicit /\ (Active(v)' => resource'[v] # None)
<1>1. v \in Resource /\ v \in Unit /\ v # c
  BY VolumeIsUnit
<1>2. resource'[v] = ResourcesAfterStart(c)[v]
  BY DEF ServiceStarts
<1>3. CASE v \in loaded[c].refs
  <2>1. ResourcesAfterStart(c)[v] # None
    BY <1>3 DEF CanStart
  <2>2. ASSUME resource'[v] # resource[v]
        PROVE  ~Active(v) /\ resource'[v] = Fresh(v)
    BY <1>1, <1>2, <1>3, <2>2 DEF ResourcesAfterStart, Declared
  <2>3. ASSUME ~Active(v) PROVE Fresh(v) # Implicit
    <3>1. loaded[v] # None
      BY <1>3, <2>3 DEF CanStart, CanRun
    <3>2. loaded[v].def # None
      BY <3>1 DEF Declared
    <3> QED
      BY <3>2 DEF Fresh, Implicit
  <2> QED
    BY <1>2, <2>1, <2>2, <2>3 DEF Declared
<1>4. CASE v \notin loaded[c].refs
  <2>1. resource'[v] = resource[v]
    BY <1>1, <1>2, <1>4 DEF ResourcesAfterStart
  <2>2. status'[v] = status[v]
    BY <1>1, <1>4 DEF ServiceStarts
  <2> QED
    BY <2>1, <2>2 DEF Declared, Active
<1> QED
  BY <1>3, <1>4

\* No step leaves an active volume service without its volume, or makes one up.
LEMMA DeclaredStays ==
    ASSUME NoFailures, IInv, StoppedFirst, Declared, [Next]_vars
    PROVE  Declared'
<1> SUFFICES ASSUME NEW v \in Volume
             PROVE  /\ resource'[v] # Implicit
                    /\ Active(v)' => resource'[v] # None
                    /\ loaded'[v] # None => loaded'[v].def # None
  BY DEF Declared
<1>1. v \in Resource /\ v \in Unit /\ v \notin Network /\ v \notin Build
  BY VolumeIsUnit
<1>2. CASE \E c \in Container : CanStart(c) /\ ServiceStarts(c) /\ UNCHANGED loaded
  BY <1>2, StartDeclares DEF Declared
<1>3. CASE Quiescent
  <2>1. loaded'[v] # None => loaded'[v].def # None
    BY <1>1, <1>3 DEF Quiescent, Generated, Declared
  <2>2. Implicit # None
    BY ImplicitIsMade, NoneIsFresh
  <2>3. resource'[v] # Implicit
    BY <1>1, <1>3, <2>2 DEF Quiescent, Declared
  <2>4. ASSUME Active(v)', resource'[v] = None PROVE FALSE
    <3>1. Active(v) /\ resource[v] # None
      BY <1>1, <1>3, <2>4 DEF Quiescent, Declared
    <3>2. PICK s \in todo : /\ s.unit = v
                            /\ \/ DeletePodmanVolume(s) \/ DeletePodmanNetwork(s)
                               \/ DeletePodmanImage(s)
      BY <1>1, <2>4, <3>1, ResourceLost
    <3>3. DeletePodmanVolume(s) /\ s.op = "DeletePodmanVolume"
      BY <1>1, <3>2
         DEF DeletePodmanVolume, DeletePodmanNetwork, DeletePodmanImage, Due, Step, IInv, RunInv,
             RunTyped
    <3>4. Stop(v) \notin todo
      BY <3>3 DEF DeletePodmanVolume, Due, Precedes, OpRank, Order, Stop
    <3> QED
      BY <3>1, <3>2, <3>3, <3>4 DEF StoppedFirst, Idle
  <2> QED
    BY <2>1, <2>3, <2>4
<1> QED
  BY <1>2, <1>3, StartsOrQuiescent

\* A container is created with the volumes there are.
LEMMA RunsOnDeclared ==
    ASSUME NoFailures, IInv, Declared, Declared', RunsOnDeclaredVolume, [Next]_vars
    PROVE  RunsOnDeclaredVolume'
<1> SUFFICES ASSUME NEW d \in Container, NEW v \in Volume, ran'[d] # None
             PROVE  ran'[d].resource[v] # Implicit
  BY DEF RunsOnDeclaredVolume
<1>1. CASE Quiescent
  BY <1>1 DEF Quiescent, RunsOnDeclaredVolume
<1>2. ASSUME NEW c \in Container, CanStart(c), ServiceStarts(c)
      PROVE  ran'[d].resource[v] # Implicit
  <2>1. CASE d # c
    <3>1. ran'[d] = ran[d]
      BY <1>2, <2>1 DEF ServiceStarts, IInv, HostInv, HostTyped
    <3> QED
      BY <3>1 DEF RunsOnDeclaredVolume
  <2>2. CASE d = c
    <3>1. ran'[c].resource[v] \in {resource'[v], None}
      BY <1>2, VolumeIsUnit DEF ServiceStarts, IInv, HostInv, HostTyped
    <3>2. Implicit # None
      BY ImplicitIsMade, NoneIsFresh
    <3> QED
      BY <2>2, <3>1, <3>2 DEF Declared
  <2> QED
    BY <2>1, <2>2
<1> QED
  BY <1>1, <1>2, StartsOrQuiescent

\* No container runs on a volume that podman made up, however its host is changed from
\* one input to another, rebooted, or left by a run that died, where no operation fails
\* of itself and no input drops a volume whose deletion it allows.
THEOREM VolumesDeclared ==
    ASSUME NoFailures, VolumesKept
    PROVE  Spec => []RunsOnDeclaredVolume
<1> DEFINE DInv == FromInput /\ StoppedFirst /\ Declared /\ RunsOnDeclaredVolume
<1>1. Init => DInv
  BY ImplicitIsMade, NoneIsFresh, VolumeIsUnit
     DEF Init, FromInput, StoppedFirst, Declared, Active, RunsOnDeclaredVolume
<1>2. IInv /\ DInv /\ [Next]_vars => DInv'
  BY FromInputStays, StoppedFirstStays, DeclaredStays, RunsOnDeclared
<1> QED
  BY <1>1, <1>2, Invariance, PTL DEF Spec

(***************************************************************************)
(* What containers run on is what their input says, where no run dies and  *)
(* all inputs have the same volumes, networks and builds, which they may   *)
(* redefine.  A container that runs and is not to be stopped is one the    *)
(* rest of the run leaves alone; one that is started is created with what  *)
(* the host has; and a service whose definition is to change is down from  *)
(* the stops to the daemon-reload, and what it made is deleted.            *)
(***************************************************************************)
NoReboots == "reboot" \notin FaultKinds

\* All inputs have the same volumes, networks and builds, which refer to nothing else.
ResourcesStay ==
    \A r \in Resource : \A in, other \in Inputs :
        in.unit[r] # None => other.unit[r] # None /\ in.unit[r].refs = {}

\* No input changes them.
ResourcesFixed ==
    \A r \in Resource : \A in, other \in Inputs : in.unit[r] # None =>
        /\ StripRestartNeutralOptions(in.unit[r]) = StripRestartNeutralOptions(other.unit[r])
        /\ r \in Build => in.files[r] = other.files[r]

\* What is a oneshot for one input is one for all.
OneshotsStay ==
    \A c \in Container : \A in, other \in Inputs :
        in.unit[c] # None /\ other.unit[c] # None /\ in.unit[c].type = "oneshot"
            => other.unit[c].type = "oneshot"

SameButNeutral(f, g) == StripRestartNeutralOptions(f) = StripRestartNeutralOptions(g)

\* Every service comes from the unit file of an input, and what runs is one that systemd
\* knows and keeps running.
Served ==
    /\ \A u \in Unit : loaded[u] # None =>
          \E in \in Inputs : in.unit[u] # None /\ loaded[u] = Rendered(in, u)
    /\ \A r \in Resource : loaded[r] # None => installed[r] # None
    /\ \A c \in Container : IsRunning(c) => loaded[c] # None /\ loaded[c].type = "running"
    /\ \A c \in Container : ran[c] # None => Active(c)

\* Only what can reload is to be reloaded.
Reloads ==
    pc = "apply" => \A s \in todo : s.op = "ReloadSystemdService" =>
        goal.unit[s.unit] # None /\ goal.unit[s.unit].reloadable

Reload(c) == Task("ReloadSystemdService", c, None)
Mounted(c, x, m) == IF x \in loaded[c].mounts THEN m[x] ELSE None

\* A container was created with what its service says and the host has.
AsOnHost(c) ==
    /\ SameButNeutral(ran[c].spec, loaded[c])
    /\ \A f \in File : ran[c].files[f] = Mounted(c, f, files[c])
    /\ Reload(c) \in todo \/ \A d \in Dir : ran[c].dirs[d] = Mounted(c, d, dirs[c])
    /\ \A x \in loaded[c].secrets : ran[c].secrets[x] = secrets[x]
    /\ \A r \in loaded[c].refs :
          /\ ran[c].resource[r].def = loaded[r].def
          /\ r \in Build => ran[c].resource[r].files = files[r]
CreatedAsOnHost == \A c \in Container : Active(c) => AsOnHost(c)

\* An operation that changes what a container was created with.
Touches(s, c) ==
    \/ /\ s.unit = c
       /\ \/ /\ s.op \in {"WriteFsContainerConfigFile", "DeleteFsContainerConfigFile"}
             /\ s.item \in loaded[c].mounts
          \/ /\ s.op \in {"WriteFsContainerConfigDir", "DeleteFsContainerConfigDir"}
             /\ s.item \in loaded[c].mounts /\ Reload(c) \notin todo
          \/ s.op \in {"DeleteFsContainerConfig", "DeleteFsQuadletUnitFile"}
          \/ s.op = "WriteFsQuadletUnitFile" /\ ~SameButNeutral(Rendered(goal, c), loaded[c])
    \/ s.op \in {"UpsertPodmanSecret", "DeletePodmanSecret"} /\ s.item \in loaded[c].secrets
    \/ /\ s.unit \in loaded[c].refs
       /\ \/ s.op \in {"DeleteFsQuadletUnitFile", "WriteFsBuildContextFile",
                       "DeleteFsBuildContextFile", "DeleteFsBuildContext"}
          \/ s.op = "WriteFsQuadletUnitFile" /\ ~SameButNeutral(Rendered(goal, s.unit), loaded[s.unit])

\* What runs and is not to be stopped is left alone by the rest of the run.
Undisturbed(c) ==
    /\ \A s \in todo : ~Touches(s, c)
    /\ \A u \in {c} \cup loaded[c].refs :
          installed[u] # None /\ loaded[u] # None /\ SameButNeutral(installed[u], loaded[u])
LeftAlone == \A c \in Container : IsRunning(c) /\ Stop(c) \notin todo => Undisturbed(c)

\* A volume, a network or an image that is there was made by its present service.
MadeByService ==
    \A r \in Resource : resource[r] # None /\ (r \in Build => Active(r)) =>
        /\ loaded[r] # None /\ resource[r].def = loaded[r].def
        /\ r \in Build => resource[r].files = files[r]

\* A service that is not as the input wants it is stopped and stays so until systemd
\* knows the new one, and what it made is deleted.
Outdated(r) ==
    /\ pc = "apply" /\ goal.unit[r] # None /\ loaded[r] # None
    /\ \/ ~SameButNeutral(loaded[r], goal.unit[r])
       \/ r \in Build /\ files[r] # goal.files[r]
Deletes(r) ==
    \E s \in todo : s.unit = r /\ s.op \in {"DeletePodmanVolume", "DeletePodmanNetwork"}
OutdatedIsDown ==
    \A r \in Resource : Outdated(r) =>
        /\ Stop(r) \in todo \/ Idle(r)
        /\ r \notin Build => Deletes(r) \/ (Stop(r) \notin todo /\ resource[r] = None)

(***************************************************************************)
(* What the steps do.                                                      *)
(***************************************************************************)
\* Inputs that all have the same volumes drop none.
LEMMA VolumesStay ==
    ASSUME ResourcesStay
    PROVE  VolumesKept
  BY VolumeIsUnit DEF ResourcesStay, VolumesKept

\* The options that do not call for a restart say nothing of the service itself.
LEMMA NeutralKeeps ==
    ASSUME NEW f \in UnitFile, NEW g \in UnitFile, SameButNeutral(f, g)
    PROVE  /\ f.def = g.def /\ f.type = g.type /\ f.reloadable = g.reloadable
           /\ f.refs = g.refs /\ f.secrets = g.secrets /\ f.mounts = g.mounts
<1> DEFINE a == StripRestartNeutralOptions(f)
           b == StripRestartNeutralOptions(g)
<1>1. /\ a.def = f.def /\ a.type = f.type /\ a.reloadable = f.reloadable
      /\ a.refs = f.refs /\ a.secrets = f.secrets /\ a.mounts = f.mounts
  BY DEF UnitFile, StripRestartNeutralOptions
<1>2. /\ b.def = g.def /\ b.type = g.type /\ b.reloadable = g.reloadable
      /\ b.refs = g.refs /\ b.secrets = g.secrets /\ b.mounts = g.mounts
  BY DEF UnitFile, StripRestartNeutralOptions
<1>3. a = b
  BY DEF SameButNeutral
<1> QED
  BY <1>1, <1>2, <1>3, Zenon

\* A resource of one input is in all, and its unit file is whole by itself.
LEMMA StayingResource ==
    ASSUME ResourcesStay, NEW r \in Resource, NEW in \in Inputs, in.unit[r] # None
    PROVE  /\ Rendered(in, r) = in.unit[r] /\ in.unit[r].refs = {}
           /\ in.unit[r].def # None /\ in.unit[r] \in UnitFile
           /\ \A other \in Inputs : other.unit[r] # None
  BY ResourceIsUnit, InputsWhole, InputsTyped DEF ResourcesStay, Rendered, Input, Maybe

\* What systemd generates for a container and for what it refers to are their unit files.
LEMMA GeneratedWhole ==
    ASSUME ResourcesStay, IInv, FromInputs, NEW c \in Container, Generated[c] # None
    PROVE  \A u \in {c} \cup installed[c].refs :
              u \in Unit /\ installed[u] # None /\ Generated[u] = installed[u]
<1>1. c \in Unit /\ Generated[c] = installed[c] /\ installed[c] # None
      /\ \A r \in installed[c].refs : installed[r] # None
  BY DEF Unit, Generated
<1>2. installed[c].refs \subseteq Resource
  BY <1>1 DEF IInv, HostInv, HostTyped, Maybe, UnitFile
<1>3. ASSUME NEW r \in installed[c].refs
      PROVE  r \in Unit /\ Generated[r] = installed[r]
  <2>1. r \in Resource /\ r \in Unit /\ installed[r] # None
    BY <1>1, <1>2, ResourceIsUnit
  <2>2. PICK in \in Inputs : in.unit[r] # None /\ installed[r] = Rendered(in, r)
    BY <2>1 DEF FromInputs
  <2>3. installed[r].def # None /\ installed[r].refs = {}
    BY <2>1, <2>2, StayingResource
  <2> QED
    BY <2>1, <2>3 DEF Generated
<1> QED
  BY <1>1, <1>3

\* A step of a run, or one of the host.
LEMMA StepKinds ==
    ASSUME NoFailures, NoCrashes, IInv, pc # "abort", [Next]_vars
    PROVE  \/ \E in \in Inputs : Plan(in)
           \/ \E s \in todo : /\ Tries(s) /\ pc = "apply" /\ pc' = "apply"
                              /\ todo' = todo \ {s} /\ UNCHANGED <<goal, base>>
           \/ /\ UNCHANGED host
              /\ \/ UNCHANGED run
                 \/ /\ todo = {} /\ todo' = {} /\ pc' = "idle"
                    /\ Finish \/ \E in \in Inputs : Refuse(in)
           \/ Reboot
           \/ \E d \in Container : ContainerExit(d) \/ AutoRestart(d)
<1>1. ASSUME NEW in \in Inputs, Refuse(in)
      PROVE  UNCHANGED host /\ todo = {} /\ todo' = {} /\ pc' = "idle"
  BY <1>1 DEF Refuse, IInv, RunInv
<1>2. CASE Finish
  BY <1>2 DEF Finish
<1>3. ASSUME NEW s \in todo, Tries(s)
      PROVE  pc = "apply" /\ pc' = "apply" /\ todo' = todo \ {s} /\ UNCHANGED <<goal, base>>
  <2>1. pc' = pc
    BY <1>3, NothingFails
       DEF Tries, Done, NotDone, Fails, PullPodmanImage, StopSystemdService,
         WriteFsContainerConfigFile, DeleteFsContainerConfigFile, DeleteFsContainerConfig,
         WriteFsContainerConfigDir, DeleteFsContainerConfigDir, WriteFsBuildContextFile,
         DeleteFsBuildContextFile, DeleteFsBuildContext, DeletePodmanSecret, UpsertPodmanSecret,
         WriteFsQuadletUnitFile, DeleteFsQuadletUnitFile, DeletePodmanVolume,
         DeletePodmanNetwork, DeletePodmanImage, DaemonReload, ReloadSystemdService,
         StartSystemdService, Due, Remove, Exec, ExecUnit, FilesWritten
  <2>2. pc = "apply"
    BY <1>3 DEF Tries, Due,
         PullPodmanImage, StopSystemdService, WriteFsContainerConfigFile,
         DeleteFsContainerConfigFile, DeleteFsContainerConfig, WriteFsContainerConfigDir,
         DeleteFsContainerConfigDir, WriteFsBuildContextFile, DeleteFsBuildContextFile,
         DeleteFsBuildContext, DeletePodmanSecret, UpsertPodmanSecret, WriteFsQuadletUnitFile,
         DeleteFsQuadletUnitFile, DeletePodmanVolume, DeletePodmanNetwork, DeletePodmanImage,
         DaemonReload, ReloadSystemdService, StartSystemdService
  <2> QED
    BY <1>3, <2>1, <2>2, OpTaken DEF Tries
<1>4. ~Crash
  BY DEF Crash, Fault, NoCrashes
<1>5. CASE UNCHANGED vars
  BY <1>5 DEF vars, host, disk, podman, systemd, run
<1> QED
  BY <1>1, <1>2, <1>3, <1>4, <1>5 DEF Next, ApplyStep, Tries

\* A container that exits or is restarted changes nothing about the others.
LEMMA HostStep ==
    ASSUME IInv, NEW d \in Container, ContainerExit(d) \/ AutoRestart(d)
    PROVE  /\ UNCHANGED <<disk, secrets, loaded, run>>
           /\ \A c \in Container : IsRunning(c)' => IsRunning(c)
<1>1. UNCHANGED <<disk, secrets, loaded, run>>
  BY DEF ContainerExit, AutoRestart, podman
<1>2. ASSUME NEW c \in Container, IsRunning(c)'
      PROVE  IsRunning(c)
  <2>1. c \in Unit /\ c \notin Resource
    BY UnitTypesDisjoint DEF Unit
  <2>2. CASE ContainerExit(d)
    BY <1>2, <2>1, <2>2 DEF ContainerExit, IsRunning, Active, IInv, HostInv, HostTyped
  <2>3. CASE AutoRestart(d)
    <3>1. loaded[d] # None /\ d \in Unit
      BY <2>3 DEF AutoRestart, CanStart, Unit
    <3>2. loaded[d].refs \subseteq Resource
      BY <3>1 DEF IInv, HostInv, HostTyped, UnitFile, Maybe
    <3>3. status'[c] = IF c = d THEN "active" ELSE status[c]
      BY <2>1, <2>3, <3>2 DEF AutoRestart, ServiceStarts
    <3> QED
      BY <1>2, <2>3, <3>3 DEF IsRunning, AutoRestart
  <2> QED
    BY <2>2, <2>3
<1> QED
  BY <1>1, <1>2

\* The services an operation stops, and the one it has reread its configDirs.
LEMMA TriedRan ==
    ASSUME NoFailures, IInv, NEW s \in todo, Tries(s)
    PROVE  /\ s.op \notin {"StopSystemdService", "ReloadSystemdService", "StartSystemdService"} =>
                 UNCHANGED <<status, ran>>
           /\ s.op = "StopSystemdService" =>
                 \/ ServiceStops(StoppedWith(s.unit))
                 \/ loaded[s.unit] = None /\ status[s.unit] = "inactive" /\ UNCHANGED <<status, ran>>
           /\ s.op = "ReloadSystemdService" =>
                 /\ UNCHANGED status
                 /\ \/ ran' = [ran EXCEPT ![s.unit].dirs = dirs[s.unit]] /\ Active(s.unit)
                    \/ UNCHANGED ran /\ ~(Active(s.unit) /\ loaded[s.unit] # None /\ loaded[s.unit].reloadable)
<1>1. CASE s.op \notin {"StopSystemdService", "ReloadSystemdService", "StartSystemdService"}
  <2>1. UNCHANGED <<status, ran>>
    BY <1>1 DEF Tries,
         PullPodmanImage, StopSystemdService, WriteFsContainerConfigFile,
         DeleteFsContainerConfigFile, DeleteFsContainerConfig, WriteFsContainerConfigDir,
         DeleteFsContainerConfigDir, WriteFsBuildContextFile, DeleteFsBuildContextFile,
         DeleteFsBuildContext, DeletePodmanSecret, UpsertPodmanSecret, WriteFsQuadletUnitFile,
         DeleteFsQuadletUnitFile, DeletePodmanVolume,
         DeletePodmanNetwork, DeletePodmanImage, DaemonReload, ReloadSystemdService,
         StartSystemdService, Due, Remove, Exec, ExecUnit, Fails, FilesWritten, host, systemd
  <2> QED
    BY <1>1, <2>1
<1>2. CASE s.op = "StopSystemdService"
  <2>1. StopSystemdService(s)
    BY <1>2, TriedAs
  <2>2. \/ ServiceStops(StoppedWith(s.unit))
        \/ loaded[s.unit] = None /\ status[s.unit] = "inactive" /\ UNCHANGED host
    BY <2>1, NothingFails DEF StopSystemdService, ExecUnit, Fails, NotDone
  <2> QED
    BY <1>2, <2>2 DEF host, systemd
<1>3. CASE s.op = "ReloadSystemdService"
  <2>1. ReloadSystemdService(s)
    BY <1>3, TriedAs
  <2>2. UNCHANGED status
    BY <2>1, Zenon DEF ReloadSystemdService, ExecUnit, Fails, host, systemd
  <2>3. \/ ran' = [ran EXCEPT ![s.unit].dirs = dirs[s.unit]] /\ Active(s.unit)
        \/ /\ ExecUnit(s, ~Active(s.unit) \/ loaded[s.unit] = None \/ ~loaded[s.unit].reloadable)
           /\ UNCHANGED ran
    BY <2>1, Zenon DEF ReloadSystemdService, ExecUnit, Fails, host, systemd
  <2>4. ASSUME Active(s.unit) /\ loaded[s.unit] # None /\ loaded[s.unit].reloadable,
               ExecUnit(s, ~Active(s.unit) \/ loaded[s.unit] = None \/ ~loaded[s.unit].reloadable)
        PROVE  FALSE
    <3>1. ~Fault("fail")
      BY NothingFails
    <3> QED
      BY <2>4, <3>1 DEF ExecUnit, Fails, NotDone
  <2> QED
    BY <1>3, <2>2, <2>3, <2>4
<1> QED
  BY <1>1, <1>2, <1>3

\* What a start does.
LEMMA TriedStart ==
    ASSUME NoFailures, IInv, NEW s \in todo, Tries(s), s.op = "StartSystemdService"
    PROVE  /\ s.unit \in Container
           /\ \/ UNCHANGED host
              \/ CanStart(s.unit) /\ ServiceStarts(s.unit) /\ UNCHANGED <<disk, secrets, loaded>>
              \/ /\ ~Active(s.unit) /\ UNCHANGED <<disk, podman, loaded, ran>>
                 /\ \/ UNCHANGED status
                    \/ /\ loaded[s.unit] # None /\ loaded[s.unit].type = "running"
                       /\ \E to \in {"inactive", "activating"} : status' = [status EXCEPT ![s.unit] = to]
<1>1. StartSystemdService(s)
  BY TriedAs
<1>2. s.unit \in Container /\ s.unit \in Unit
  BY DEF IInv, RunInv, RunTyped, Step, Unit
<1>3. ASSUME NEW to, status' = [status EXCEPT ![s.unit] = to], to = status[s.unit]
      PROVE  UNCHANGED status
  BY <1>2, <1>3 DEF IInv, HostInv, HostTyped
<1> QED
  BY <1>1, <1>2, <1>3 DEF StartSystemdService, host

\* Without a start no resource is made, and a delete leaves nothing but what is used.
LEMMA TriedResources ==
    ASSUME NoFailures, IInv, NEW s \in todo, Tries(s), s.op # "StartSystemdService"
    PROVE  /\ \A r \in Resource : resource'[r] \in {resource[r], None}
           /\ s.op \in {"DeletePodmanVolume", "DeletePodmanNetwork"} =>
                 resource'[s.unit] = None \/ InUse(s.unit)
<1>1. CASE s.op \notin {"DeletePodmanVolume", "DeletePodmanNetwork", "DeletePodmanImage"}
  <2>1. UNCHANGED resource
    BY <1>1 DEF Tries,
         PullPodmanImage, StopSystemdService, WriteFsContainerConfigFile,
         DeleteFsContainerConfigFile, DeleteFsContainerConfig, WriteFsContainerConfigDir,
         DeleteFsContainerConfigDir, WriteFsBuildContextFile, DeleteFsBuildContextFile,
         DeleteFsBuildContext, DeletePodmanSecret, UpsertPodmanSecret, WriteFsQuadletUnitFile,
         DeleteFsQuadletUnitFile, DeletePodmanVolume,
         DeletePodmanNetwork, DeletePodmanImage, DaemonReload, ReloadSystemdService,
         StartSystemdService, Due, Exec, ExecUnit, Fails, FilesWritten, host, podman
  <2> QED
    BY <1>1, <2>1
<1>2. CASE s.op \in {"DeletePodmanVolume", "DeletePodmanNetwork", "DeletePodmanImage"}
  <2>1. s.unit \in Resource
    BY <1>2 DEF IInv, RunInv, RunTyped, Step, Resource
  <2>2. Remove(s) \/ (CannotRemove(s.unit) /\ UNCHANGED host)
    BY <1>2, TriedAs, NothingFails
       DEF DeletePodmanVolume, DeletePodmanNetwork, DeletePodmanImage, Exec, ExecUnit, Fails, NotDone
  <2>3. CASE Remove(s)
    BY <2>1, <2>3 DEF Remove, IInv, HostInv, HostTyped
  <2>4. CASE CannotRemove(s.unit) /\ UNCHANGED host
    BY <2>4 DEF CannotRemove, host, podman
  <2> QED
    BY <2>2, <2>3, <2>4
<1> QED
  BY <1>1, <1>2

\* The unit files are those of inputs.
LEMMA FromInputsKept ==
    ASSUME NoFailures, NoCrashes, IInv, FromInputs, [Next]_vars
    PROVE  FromInputs'
<1>1. CASE ApplyStep
  BY <1>1, FromInputsStays
<1>2. CASE installed' = installed
  BY <1>2 DEF FromInputs
<1>3. ~Crash
  BY DEF Crash, Fault, NoCrashes
<1> QED
  BY <1>1, <1>2, <1>3
     DEF Next, Plan, Refuse, Reboot, ContainerExit, AutoRestart, vars, host, disk

\* systemd learns of unit files only when it reads all of them.
LEMMA ServicesRead ==
    ASSUME NoFailures, NoCrashes, IInv, pc # "abort", [Next]_vars, loaded' # loaded
    PROVE  /\ loaded' = Generated /\ UNCHANGED <<disk, podman>>
           /\ \/ Reboot
              \/ \E s \in todo : Tries(s) /\ s.op = "DaemonReload" /\ UNCHANGED <<status, ran>>
<1>1. ASSUME NEW s \in todo, Tries(s)
      PROVE  s.op = "DaemonReload" /\ loaded' = Generated /\ UNCHANGED <<disk, podman, status, ran>>
  <2>1. s.op = "DaemonReload"
    BY <1>1, TriedServices
  <2> QED
    BY <1>1, <2>1, TriedAs, NothingFails DEF DaemonReload
<1>2. CASE Reboot
  BY <1>2 DEF Reboot
<1>3. CASE (\E in \in Inputs : Plan(in)) \/ UNCHANGED host
           \/ \E d \in Container : ContainerExit(d) \/ AutoRestart(d)
  BY <1>3 DEF Plan, host, systemd, ContainerExit, AutoRestart
<1> QED
  BY <1>1, <1>2, <1>3, StepKinds

\* A resource that is known stays installed.
LEMMA ResourcesInstalled ==
    ASSUME NoFailures, NoCrashes, ResourcesStay, IInv, Owed, Served, [Next]_vars,
           NEW r \in Resource, loaded'[r] # None
    PROVE  installed'[r] # None
<1>1. r \in Unit
  BY ResourceIsUnit
<1>2. CASE loaded' # loaded
  BY <1>1, <1>2, ServicesRead DEF Owed, Generated, disk
<1>3. CASE loaded' = loaded
  <2>1. installed[r] # None
    BY <1>3 DEF Served
  <2>2. PICK in \in Inputs : in.unit[r] # None
    BY <1>1, <1>3 DEF Served
  <2> SUFFICES ASSUME installed'[r] = None PROVE FALSE
    OBVIOUS
  <2>3. PICK s \in todo : DeleteFsQuadletUnitFile(s) /\ s.unit = r
    BY <1>1, <2>1, InstalledLost
  <2>4. pc = "apply" /\ s.op = "DeleteFsQuadletUnitFile"
    BY <2>3 DEF DeleteFsQuadletUnitFile, Due
  <2>5. goal \in Inputs /\ goal.unit[r] = None
    BY <2>3, <2>4 DEF Owed, Licensed
  <2> QED
    BY <2>2, <2>5, StayingResource
<1> QED
  BY <1>2, <1>3

\* What comes up is a service that systemd keeps running.
LEMMA KeptRunning ==
    ASSUME NoFailures, NoCrashes, IInv, Owed, Closed, Synced, Served, LeftAlone, [Next]_vars,
           NEW c \in Container, IsRunning(c)'
    PROVE  loaded'[c] # None /\ loaded'[c].type = "running"
<1>1. c \in Unit /\ c \notin Resource
  BY UnitTypesDisjoint DEF Unit
<1>2. ASSUME NEW s \in todo, Tries(s), s.op = "DaemonReload"
      PROVE  loaded'[c] # None /\ loaded'[c].type = "running"
  <2>1. loaded' = Generated /\ IsRunning(c)
    BY <1>2, TriedServices DEF IsRunning
  <2>2. Stop(c) \notin todo
    BY <1>2, NothingBefore DEF OpRank, Order, Stop
  <2>3. /\ installed[c] # None /\ loaded[c] # None /\ SameButNeutral(installed[c], loaded[c])
    BY <2>1, <2>2 DEF LeftAlone, Undisturbed
  <2>4. loaded'[c] = installed[c]
    BY <1>1, <2>1, <2>3 DEF Generated, Closed
  <2>5. installed[c].type = loaded[c].type
    BY <1>1, <2>3, NeutralKeeps DEF IInv, HostInv, HostTyped, Maybe
  <2> QED
    BY <2>1, <2>3, <2>4, <2>5 DEF Served
<1>3. CASE Reboot
  BY <1>1, <1>3 DEF Reboot, IsRunning
<1>4. CASE IsRunning(c) /\ loaded' = loaded
  BY <1>4 DEF Served
<1>5. ASSUME NEW s \in todo, Tries(s), ~IsRunning(c)
      PROVE  loaded'[c] # None /\ loaded'[c].type = "running"
  <2>1. s.op = "StartSystemdService"
    BY <1>1, <1>5, TriedServices DEF IsRunning
  <2>2. s.unit = c
    BY <1>1, <1>5, <2>1, TriedServices DEF IsRunning
  <2>3. goal.unit[c] # None /\ goal.unit[c].type = "running" /\ goal \in Inputs /\ pc = "apply"
    <3>1. pc = "apply"
      BY <1>5, <2>1, TriedAs DEF StartSystemdService, Due
    <3> QED
      BY <1>5, <2>1, <2>2, <3>1 DEF Owed, Licensed
  <2>4. loaded[c] = Rendered(goal, c)
    BY <1>1, <1>5, <2>1, <2>3, LoadedAsWanted DEF Containers, Desired
  <2>5. loaded' = loaded
    BY <1>5, <2>1, TriedServices
  <2> QED
    BY <1>1, <2>3, <2>4, <2>5, RenderedWhole
<1>6. ASSUME NEW d \in Container, ContainerExit(d) \/ AutoRestart(d)
      PROVE  IsRunning(c) /\ loaded' = loaded
  BY <1>6, HostStep
<1>7. CASE (\E in \in Inputs : Plan(in)) \/ UNCHANGED host
  BY <1>7 DEF Plan, host, systemd, IsRunning, Served
<1>8. pc # "abort"
  BY DEF Owed
<1>9. ASSUME NEW s \in todo, Tries(s), s.op # "DaemonReload"
      PROVE  loaded' = loaded
  BY <1>9, TriedServices
<1> QED
  BY <1>2, <1>3, <1>4, <1>5, <1>6, <1>7, <1>8, <1>9, StepKinds

\* What was created is active.
LEMMA CreatedIsActive ==
    ASSUME NoFailures, NoCrashes, IInv, pc # "abort", Served, [Next]_vars,
           NEW c \in Container, ran'[c] # None
    PROVE  Active(c)'
<1>1. c \in Unit /\ c \notin Resource
  BY UnitTypesDisjoint DEF Unit
<1>2. CASE UNCHANGED <<status, ran>>
  BY <1>2 DEF Served, Active
<1>3. ASSUME NEW d \in Container, CanStart(d), ServiceStarts(d)
      PROVE  Active(c)'
  BY <1>1, <1>3 DEF ServiceStarts, Served, Active, IInv, HostInv, HostTyped
<1>4. ASSUME NEW us, ServiceStops(us)
      PROVE  Active(c)'
  BY <1>1, <1>4 DEF ServiceStops, Served, Active
<1>5. ASSUME NEW s \in todo, Tries(s)
      PROVE  Active(c)'
  <2>1. CASE s.op = "StopSystemdService"
    BY <1>2, <1>4, <1>5, <2>1, TriedRan
  <2>2. CASE s.op = "ReloadSystemdService"
    <3>1. UNCHANGED status
      BY <1>5, <2>2, TriedRan
    <3>2. ran[c] # None \/ (Active(s.unit) /\ c = s.unit)
      <4>1. CASE ran' = [ran EXCEPT ![s.unit].dirs = dirs[s.unit]] /\ Active(s.unit) /\ c # s.unit
        BY <4>1 DEF IInv, HostInv, HostTyped
      <4> QED
        BY <1>5, <2>2, <4>1, TriedRan
    <3> QED
      BY <3>1, <3>2 DEF Served, Active
  <2>3. CASE s.op = "StartSystemdService"
    <3>1. CASE CanStart(s.unit) /\ ServiceStarts(s.unit)
      BY <1>3, <1>5, <2>3, <3>1, TriedStart
    <3>2. CASE ~Active(s.unit) /\ UNCHANGED ran /\ \E to : status' = [status EXCEPT ![s.unit] = to]
      BY <1>1, <3>2 DEF Served, Active, IInv, HostInv, HostTyped
    <3> QED
      BY <1>2, <1>5, <2>3, <3>1, <3>2, TriedStart DEF host, systemd
  <2> QED
    BY <1>2, <1>5, <2>1, <2>2, <2>3, TriedRan
<1>6. CASE Reboot
  BY <1>6 DEF Reboot
<1>7. ASSUME NEW d \in Container, ContainerExit(d)
      PROVE  Active(c)'
  BY <1>1, <1>7 DEF ContainerExit, Served, Active, IInv, HostInv, HostTyped
<1>8. CASE (\E in \in Inputs : Plan(in)) \/ UNCHANGED host
  BY <1>2, <1>8 DEF Plan, host, systemd
<1> QED
  BY <1>3, <1>5, <1>6, <1>7, <1>8, StepKinds DEF AutoRestart

\* Together:
LEMMA ServedStays ==
    ASSUME NoFailures, NoCrashes, ResourcesStay, IInv, FromInputs, Owed, Closed, Synced, Served,
           LeftAlone, [Next]_vars
    PROVE  Served'
<1>1. pc # "abort"
  BY DEF Owed
<1>2. ASSUME NEW u \in Unit, loaded'[u] # None
      PROVE  \E in \in Inputs : in.unit[u] # None /\ loaded'[u] = Rendered(in, u)
  <2>1. CASE loaded' = loaded
    BY <1>2, <2>1 DEF Served
  <2>2. CASE loaded' # loaded
    <3>1. loaded'[u] = installed[u] /\ installed[u] # None
      BY <1>1, <1>2, <2>2, ServicesRead DEF Generated
    <3> QED
      BY <3>1 DEF FromInputs
  <2> QED
    BY <2>1, <2>2
<1> QED
  BY <1>1, <1>2, ResourcesInstalled, KeptRunning, CreatedIsActive DEF Served

\* A plan reloads only what runs, can be reloaded and need not restart.
LEMMA ReloadsStay ==
    ASSUME NoFailures, NoCrashes, IInv, Owed, Reloads, [Next]_vars
    PROVE  Reloads'
<1> SUFFICES ASSUME pc' = "apply", NEW s \in todo', s.op = "ReloadSystemdService"
             PROVE  goal'.unit[s.unit] # None /\ goal'.unit[s.unit].reloadable
  BY DEF Reloads
<1>1. CASE \E in \in Inputs : Plan(in)
  <2>1. PICK in \in Inputs : Plan(in)
    BY <1>1
  <2>2. goal' = in /\ s \in BuildPlan(in)
    BY <2>1, PlanIs
  <2>3. s.unit \in WithLifecycle(in, {"reload"})
    BY <2>2 DEF BuildPlan, FileOps, UnitOps, ServiceOps, Ops, ItemOps
  <2>4. s.unit \in Containers(in) /\ PlanLifecycle(in, s.unit) = "reload"
    BY <2>3 DEF WithLifecycle
  <2>5. ~NeedsRestart(in, s.unit) /\ ChangedDirs(in, s.unit) # {} /\ IsRunning(s.unit)
    BY <2>4 DEF PlanLifecycle
  <2> QED
    BY <2>2, <2>4, <2>5 DEF NeedsRestart, Containers, Desired
<1>2. CASE pc = "apply" /\ s \in todo /\ goal' = goal
  BY <1>2 DEF Reloads
<1>3. pc # "abort"
  BY DEF Owed
<1>4. ~Reboot
  BY DEF Reboot, Ends
<1> QED
  BY <1>1, <1>2, <1>3, <1>4, StepKinds DEF run, ContainerExit, AutoRestart

\* A container that runs and that a plan does not stop is one it does not have to restart.
LEMMA NotStoppedIsKept ==
    ASSUME NoFailures, LocksAreKept, OneshotsStay, IInv, FromInputs, Owed, Served, Synced,
           NEW in \in Inputs, Plan(in), NEW c \in Container, IsRunning(c), Stop(c) \notin todo'
    PROVE  /\ c \in Containers(in) /\ ~NeedsRestart(in, c) /\ installed[c] # None
           /\ loaded[c] = installed[c] /\ SameButNeutral(Rendered(in, c), loaded[c])
           /\ ChangedDirs(in, c) # {} => Reload(c) \in todo'
<1>1. c \in Unit /\ c \notin Resource
  BY UnitTypesDisjoint DEF Unit
<1>2. todo' = BuildPlan(in) /\ pc = "idle"
  BY PlanIs
<1>3. loaded = Generates(installed)
  BY <1>2 DEF Synced
<1>4. loaded[c] # None /\ loaded[c] = installed[c] /\ loaded[c].type = "running"
  BY <1>1, <1>3 DEF Generates, Served
<1>5. c \notin StopSystemdServices(in)
  BY <1>2 DEF BuildPlan, ServiceOps, Ops, Stop
<1>6. PICK old \in Inputs : old.unit[c] # None /\ installed[c] = Rendered(old, c)
  BY <1>1, <1>4 DEF FromInputs
<1>7. old.unit[c].type = "running" /\ installed[c].allowed = old.unit[c].allowed
  <2>1. old.unit[c] \in UnitFile
    BY <1>1, <1>6, InputsTyped DEF Input, Maybe
  <2>2. installed[c].allowed = old.unit[c].allowed
    BY <1>6, <2>1 DEF Rendered, UnitFile
  <2> QED
    BY <1>1, <1>4, <1>6, <2>2, RenderedWhole
<1>8. in.unit[c] # None
  <2> SUFFICES ASSUME in.unit[c] = None PROVE FALSE
    OBVIOUS
  <2>1. c \in Stale(in) /\ IsUnitRemovalAllowed(c)
    BY <1>1, <1>4, <1>6, <1>7 DEF Stale, LocksAreKept, IsUnitRemovalAllowed
  <2>2. c \notin SkippedContainerReferences(in)
    <3> SUFFICES ASSUME NEW d \in Stale(in) \cap Container, c \in installed[d].refs PROVE FALSE
      BY DEF SkippedContainerReferences
    <3> QED
      BY <1>1 DEF Stale, IInv, HostInv, HostTyped, Maybe, UnitFile
  <2>3. c \in Pruned(in)
    BY <2>1, <2>2 DEF Pruned
  <2> QED
    BY <1>4, <1>5, <2>3 DEF StopSystemdServices
<1>9. c \in Containers(in)
  BY <1>1, <1>8 DEF Containers, Desired
<1>10. in.unit[c].type # "oneshot"
  BY <1>6, <1>7, <1>8 DEF OneshotsStay
<1>11. PlanLifecycle(in, c) \notin {"restart", "stop"}
  BY <1>5, <1>9 DEF StopSystemdServices, WithLifecycle
<1>12. ~NeedsRestart(in, c)
  BY <1>10, <1>11 DEF PlanLifecycle
<1>13. in.unit[c].type # "stopped"
  BY <1>11 DEF PlanLifecycle
<1>14. SameButNeutral(Rendered(in, c), loaded[c])
  BY <1>4, <1>12 DEF NeedsRestart, MeaningfullyChanged, SameButNeutral
<1>15. ASSUME ChangedDirs(in, c) # {}
       PROVE  Reload(c) \in todo'
  <2>1. PlanLifecycle(in, c) = "reload"
    BY <1>10, <1>12, <1>13, <1>15 DEF PlanLifecycle
  <2> QED
    BY <1>2, <1>9, <2>1 DEF WithLifecycle, BuildPlan, ServiceOps, Ops, Reload, Task
<1> QED
  BY <1>4, <1>9, <1>12, <1>14, <1>15

\* A plan does not touch what it does not restart.
LEMMA PlanLeaves ==
    ASSUME NoFailures, LocksAreKept, OneshotsStay, ResourcesStay, IInv, FromInputs, Owed, Closed,
           Served, Synced,
           NEW in \in Inputs, Plan(in), NEW c \in Container, IsRunning(c), Stop(c) \notin todo',
           NEW s \in todo'
    PROVE  ~Touches(s, c)'
<1>1. c \in Unit /\ c \notin Resource
  BY UnitTypesDisjoint DEF Unit
<1>2. s \in BuildPlan(in) /\ goal' = in /\ loaded' = loaded /\ pc = "idle" /\ Plannable(in)
  BY PlanIs
<1>3. /\ c \in Containers(in) /\ ~NeedsRestart(in, c) /\ installed[c] # None
      /\ loaded[c] = installed[c] /\ SameButNeutral(Rendered(in, c), loaded[c])
      /\ ChangedDirs(in, c) # {} => Reload(c) \in todo'
  BY NotStoppedIsKept
<1>4. /\ FilesDiffer(in, c) = FALSE /\ in.unit[c].refs \cap Recreated(in) = {}
      /\ in.unit[c].secrets \cap ChangedSecrets(in) = {}
  BY <1>3 DEF NeedsRestart, FilesDiffer
<1>5. /\ loaded[c].refs = in.unit[c].refs /\ loaded[c].secrets = in.unit[c].secrets
      /\ loaded[c].mounts = Rendered(in, c).mounts
  <2>1. Rendered(in, c) \in UnitFile /\ loaded[c] \in UnitFile
    BY <1>1, <1>3, RenderedWhole DEF Containers, Desired, IInv, HostInv, HostTyped, Maybe
  <2>2. in.unit[c] \in UnitFile
    BY <1>1, <1>3, InputsTyped DEF Containers, Desired, Input, Maybe
  <2>3. Rendered(in, c).secrets = in.unit[c].secrets /\ Rendered(in, c).refs = in.unit[c].refs
    BY <2>2 DEF Rendered, UnitFile
  <2> QED
    BY <1>3, <2>1, <2>3, NeutralKeeps
<1>6. ASSUME s.unit = c, s.op \in {"WriteFsContainerConfigFile", "DeleteFsContainerConfigFile",
                                   "DeleteFsContainerConfig", "DeleteFsQuadletUnitFile"}
      PROVE  FALSE
  <2>1. CASE s.op \in {"WriteFsContainerConfigFile", "DeleteFsContainerConfigFile"}
    BY <1>2, <1>4, <1>6, <2>1 DEF FilesDiffer, BuildPlan, FileOps, UnitOps, ServiceOps, Ops, ItemOps
  <2>2. CASE s.op \in {"DeleteFsContainerConfig", "DeleteFsQuadletUnitFile"}
    <3>1. c \notin Pruned(in)
      BY <1>3 DEF Pruned, Stale, Containers, Desired
    <3>2. c \in Wiped(in)
      BY <1>2, <1>6, <2>2, <3>1 DEF BuildPlan, FileOps, UnitOps, ServiceOps, Ops, ItemOps
    <3>3. files[c] \in FileMap
      BY DEF IInv, HostInv, HostTyped, Stored
    <3>4. PICK f \in File : files[c][f] # None
      BY <3>2, <3>3 DEF Wiped, NoFiles, FileMap
    <3>5. f \in StaleFiles(in, c)
      BY <3>2, <3>4 DEF Wiped, NoFiles, StaleFiles
    <3> QED
      BY <1>4, <3>5 DEF FilesDiffer
  <2> QED
    BY <1>6, <2>1, <2>2
<1>7. ASSUME s.unit = c, s.op \in {"WriteFsContainerConfigDir", "DeleteFsContainerConfigDir"},
             s.item \in loaded[c].mounts, Reload(c) \notin todo'
      PROVE  FALSE
  <2>1. s.item \in StaleDirs(in, c)
    BY <1>2, <1>3, <1>7 DEF BuildPlan, FileOps, UnitOps, ServiceOps, Ops, ItemOps
  <2>2. s.item \in Dir /\ in.dirs[c][s.item] = None
    BY <2>1 DEF StaleDirs
  <2>3. Rendered(in, c).mounts = {f \in File : in.files[c][f] # None}
                                 \cup {d \in Dir : in.dirs[c][d] # None}
    <3>1. in.unit[c] \in UnitFile
      BY <1>1, <1>3, InputsTyped DEF Containers, Desired, Input, Maybe
    <3> QED
      BY <3>1 DEF Rendered, UnitFile
  <2> QED
    BY <1>5, <1>7, <2>2, <2>3, MountsDisjoint
<1>8. ASSUME s.op \in {"UpsertPodmanSecret", "DeletePodmanSecret"}, s.item \in loaded[c].secrets
      PROVE  FALSE
  <2>1. s.item \in ChangedSecrets(in) \cup StaleSecrets(in)
    BY <1>2, <1>8 DEF BuildPlan, FileOps, UnitOps, ServiceOps, Ops, ItemOps
  <2>2. in.secrets[s.item] # None
    BY <1>2, <1>3, <1>5, <1>8 DEF Plannable, PostRenderValid
  <2> QED
    BY <1>4, <1>5, <1>8, <2>1, <2>2 DEF StaleSecrets
<1>9. ASSUME s.unit \in loaded[c].refs
      PROVE  /\ s.op \notin {"DeleteFsQuadletUnitFile", "WriteFsBuildContextFile",
                             "DeleteFsBuildContextFile", "DeleteFsBuildContext"}
             /\ s.op = "WriteFsQuadletUnitFile" => SameButNeutral(Rendered(in, s.unit), loaded[s.unit])
  <2>1. s.unit \in Desired(in)
    BY <1>2, <1>3, <1>5, <1>9 DEF Plannable, PostRenderValid
  <2>2. s.unit \in Resource /\ s.unit \in Unit
    BY <1>1, <1>3, <1>9, ResourceIsUnit DEF IInv, HostInv, HostTyped, Maybe, UnitFile
  <2>3. s.unit \notin Recreated(in)
    BY <1>4, <1>5, <1>9
  <2>4. installed[s.unit] # None /\ loaded[s.unit] = installed[s.unit]
    <3>1. loaded = Generated
      BY <1>2, GeneratedIs DEF Synced
    <3> QED
      BY <1>3, <1>9, <3>1, GeneratedWhole
  <2>5. s.unit \notin Pruned(in)
    BY <2>1 DEF Pruned, Stale, Desired
  <2>6. ~MeaningfullyChanged(in, s.unit)
    BY <2>1, <2>2, <2>3 DEF Recreated
  <2>7. s.unit \in Build => FilesDiffer(in, s.unit) = FALSE
    BY <2>1, <2>2, <2>3, <2>4 DEF Recreated, FilesDiffer
  <2>8. s.op \notin {"WriteFsBuildContextFile", "DeleteFsBuildContextFile"}
    BY <1>2, <2>7 DEF FilesDiffer, BuildPlan, FileOps, UnitOps, ServiceOps, Ops, ItemOps, Builds
  <2>9. s.op \notin {"DeleteFsQuadletUnitFile", "DeleteFsBuildContext"}
    BY <1>2, <2>5 DEF BuildPlan, FileOps, UnitOps, ServiceOps, Ops, ItemOps
  <2> QED
    BY <2>4, <2>6, <2>8, <2>9 DEF MeaningfullyChanged, SameButNeutral
<1> QED
  BY <1>2, <1>3, <1>6, <1>7, <1>8, <1>9 DEF Touches, Reload, Rendered

\* A service systemd has just read is that of the unit files.
LEMMA ReadWhole ==
    ASSUME ResourcesStay, IInv, FromInputs, loaded' = Generated, installed' = installed,
           NEW c \in Container, loaded'[c] # None
    PROVE  \A u \in {c} \cup loaded'[c].refs :
              /\ installed'[u] # None /\ loaded'[u] # None
              /\ SameButNeutral(installed'[u], loaded'[u])
<1>1. loaded'[c] = installed[c]
  BY GeneratedWhole
<1> QED
  BY <1>1, GeneratedWhole DEF SameButNeutral

\* What a run leaves alone it leaves alone with every operation.
LEMMA LeftAloneStep ==
    ASSUME NoFailures, NoCrashes, ResourcesStay, IInv, FromInputs, Owed, Closed, Synced, Served,
           LeftAlone, [Next]_vars, pc = "apply",
           NEW s \in todo, Tries(s), todo' = todo \ {s}, goal' = goal,
           NEW c \in Container, IsRunning(c)', Stop(c) \notin todo'
    PROVE  Undisturbed(c)'
<1>1. c \in Unit
  BY DEF Unit
<1>2. loaded'[c] # None
  BY KeptRunning
<1>3. CASE s.op \in {"DaemonReload", "StartSystemdService"}
  <2>1. loaded' = Generated
    <3>1. CASE s.op = "DaemonReload"
      BY <3>1, TriedServices
    <3>2. CASE s.op = "StartSystemdService"
      <4>1. Task("DaemonReload", None, None) \notin todo
        BY <3>2, NothingBefore DEF OpRank, Order, Task
      <4> QED
        BY <3>2, <4>1, TriedServices, GeneratedIs DEF Synced
    <3> QED
      BY <1>3, <3>1, <3>2
  <2>2. installed' = installed
    BY <1>3, TriedAs, TriedStart, NothingFails DEF DaemonReload, disk, host
  <2>3. \A t \in todo' : ~Touches(t, c)'
    BY <1>3, NothingBefore DEF OpRank, Order, Touches
  <2> QED
    BY <1>2, <2>1, <2>2, <2>3, ReadWhole DEF Undisturbed
<1>4. CASE s.op \notin {"DaemonReload", "StartSystemdService"}
  <2>1. loaded' = loaded /\ \A u \in Unit : status'[u] \in {status[u], "inactive"}
    BY <1>4, TriedServices
  <2>2. IsRunning(c)
    BY <1>1, <2>1 DEF IsRunning
  <2>3. Stop(c) \notin todo
    <3> SUFFICES ASSUME s = Stop(c) PROVE FALSE
      OBVIOUS
    <3>1. status'[c] = "inactive"
      BY <1>1, TriedRan DEF Stop, ServiceStops, StoppedWith
    <3> QED
      BY <3>1 DEF IsRunning
  <2>4. Undisturbed(c)
    BY <2>2, <2>3 DEF LeftAlone
  <2>5. ASSUME NEW t \in todo', Touches(t, c)'
        PROVE  FALSE
    <3>1. ~Touches(t, c)
      BY <2>4, <2>5 DEF Undisturbed
    <3>2. /\ Reload(c) \in todo /\ Reload(c) \notin todo'
          /\ t.op \in {"WriteFsContainerConfigDir", "DeleteFsContainerConfigDir"}
      BY <2>1, <2>5, <3>1 DEF Touches, Rendered
    <3>3. s = Reload(c)
      BY <3>2
    <3> QED
      BY <2>5, <3>2, <3>3, NothingBefore DEF OpRank, Order, Reload, Task
  <2>6. ASSUME NEW u \in {c} \cup loaded[c].refs
        PROVE  installed'[u] # None /\ SameButNeutral(installed'[u], loaded[u])
    <3>1. u \in Unit
      BY <1>1, <1>2, <2>1, ResourceIsUnit DEF IInv, HostInv, HostTyped, Maybe, UnitFile
    <3>2. installed[u] # None /\ SameButNeutral(installed[u], loaded[u])
      BY <2>4 DEF Undisturbed
    <3>3. ~Touches(s, c)
      BY <2>4 DEF Undisturbed
    <3>4. CASE s.op = "WriteFsQuadletUnitFile" /\ s.unit = u
      <4>1. installed'[u] = Rendered(goal, u)
        BY <3>1, <3>4, TriedUnits DEF UnitsAfter
      <4>2. goal.unit[u] # None /\ goal \in Inputs
        BY <3>4 DEF IInv, RunInv, PermitGiven, Owed
      <4>3. SameButNeutral(Rendered(goal, u), loaded[u])
        BY <3>3, <3>4 DEF Touches
      <4> QED
        BY <3>1, <4>1, <4>2, <4>3, RenderedWhole
    <3>5. ~(s.op = "DeleteFsQuadletUnitFile" /\ s.unit = u)
      BY <3>3 DEF Touches
    <3>6. CASE installed'[u] = installed[u]
      BY <3>2, <3>6
    <3> QED
      BY <3>1, <3>4, <3>5, <3>6, TriedUnits DEF UnitsAfter
  <2> QED
    BY <2>1, <2>4, <2>5, <2>6 DEF Undisturbed
<1> QED
  BY <1>3, <1>4

\* The same for every step.
LEMMA LeftAloneStays ==
    ASSUME NoFailures, NoCrashes, LocksAreKept, OneshotsStay, ResourcesStay, IInv, FromInputs,
           Owed, Closed, Synced, Served, LeftAlone, [Next]_vars
    PROVE  LeftAlone'
<1> SUFFICES ASSUME NEW c \in Container, IsRunning(c)', Stop(c) \notin todo'
             PROVE  Undisturbed(c)'
  BY DEF LeftAlone
<1>1. loaded'[c] # None /\ pc # "abort"
  BY KeptRunning DEF Owed
<1>2. ASSUME NEW in \in Inputs, Plan(in)
      PROVE  Undisturbed(c)'
  <2>1. UNCHANGED <<installed, loaded, status>> /\ pc = "idle"
    BY <1>2, PlanIs
  <2>2. loaded' = Generated
    BY <2>1, GeneratedIs DEF Synced
  <2>3. IsRunning(c)
    BY <2>1 DEF IsRunning
  <2> QED
    BY <1>1, <1>2, <2>1, <2>2, <2>3, ReadWhole, PlanLeaves DEF Undisturbed
<1>3. CASE UNCHANGED host /\ (UNCHANGED run \/ (todo = {} /\ todo' = {} /\ pc' = "idle"))
  <2>1. IsRunning(c) /\ Stop(c) \notin todo
    BY <1>3 DEF host, systemd, run, IsRunning
  <2>2. Undisturbed(c) /\ UNCHANGED <<installed, loaded>>
    BY <1>3, <2>1 DEF LeftAlone, host, disk, systemd
  <2>3. \A t \in todo' : ~Touches(t, c)'
    BY <1>3, <2>2 DEF run, Undisturbed, Touches, Rendered
  <2> QED
    BY <2>2, <2>3 DEF Undisturbed
<1>4. CASE Reboot
  <2>1. todo' = {} /\ loaded' = Generated /\ installed' = installed
    BY <1>4 DEF Reboot, Ends, disk
  <2> QED
    BY <1>1, <2>1, ReadWhole DEF Undisturbed
<1>5. ASSUME NEW d \in Container, ContainerExit(d) \/ AutoRestart(d)
      PROVE  Undisturbed(c)'
  <2>1. IsRunning(c) /\ UNCHANGED <<installed, loaded, todo, goal>>
    BY <1>5, HostStep DEF run, disk
  <2>2. Undisturbed(c)
    BY <2>1 DEF LeftAlone
  <2>3. \A t \in todo' : ~Touches(t, c)'
    BY <2>1, <2>2 DEF Undisturbed, Touches, Rendered
  <2> QED
    BY <2>1, <2>2, <2>3 DEF Undisturbed
<1> QED
  BY <1>1, <1>2, <1>3, <1>4, <1>5, StepKinds, LeftAloneStep

\* A start makes what the present services say.
LEMMA StartMakes ==
    ASSUME IInv, Declared, MadeByService, NEW c \in Container, CanStart(c), ServiceStarts(c),
           UNCHANGED <<files, loaded>>
    PROVE  MadeByService'
<1> SUFFICES ASSUME NEW r \in Resource, resource'[r] # None, r \in Build => Active(r)'
             PROVE  /\ loaded[r] # None /\ resource'[r].def = loaded[r].def
                    /\ r \in Build => resource'[r].files = files[r]
  BY DEF MadeByService
<1>1. r \in Unit /\ r # c
  BY ResourceIsUnit
<1>2. resource'[r] = ResourcesAfterStart(c)[r]
  BY DEF ServiceStarts
<1>3. CASE r \notin loaded[c].refs
  <2>1. resource'[r] = resource[r] /\ status'[r] = status[r]
    BY <1>1, <1>2, <1>3 DEF ResourcesAfterStart, ServiceStarts
  <2> QED
    BY <2>1 DEF MadeByService, Active
<1>4. CASE r \in loaded[c].refs /\ ~Active(r) /\ (r \in Build \/ resource[r] = None)
  <2>1. resource'[r] = Fresh(r)
    BY <1>2, <1>4 DEF ResourcesAfterStart
  <2>2. loaded[r] # None
    BY <1>4 DEF CanStart, CanRun
  <2> QED
    BY <2>1, <2>2 DEF Fresh
<1>5. CASE r \in loaded[c].refs /\ ~Active(r) /\ r \notin Build /\ resource[r] # None
  <2>1. resource'[r] = resource[r]
    BY <1>2, <1>5 DEF ResourcesAfterStart
  <2> QED
    BY <1>5, <2>1 DEF MadeByService
<1>6. CASE r \in loaded[c].refs /\ Active(r)
  <2>1. r \in Volume => resource[r] # None
    BY <1>6 DEF Declared
  <2>2. resource'[r] = resource[r]
    BY <1>2, <1>6, <2>1 DEF ResourcesAfterStart
  <2> QED
    BY <1>6, <2>2 DEF MadeByService
<1> QED
  BY <1>3, <1>4, <1>5, <1>6

\* A run changes the files of a build only to those of its input.
LEMMA BuildFilesSettle ==
    ASSUME NoFailures, IInv, Owed, pc = "apply", NEW s \in todo, Tries(s),
           NEW r \in Build, goal.unit[r] # None, NEW f \in File
    PROVE  files'[r][f] \in {files[r][f], goal.files[r][f]}
<1>1. r \in Stored /\ r \notin Container
  BY UnitTypesDisjoint DEF Stored, Resource
<1>2. Licensed(s)
  BY DEF Owed
<1>3. s.op = "DeleteFsContainerConfig" => s.unit # r
  BY <1>1 DEF IInv, RunInv, RunTyped, Step
<1> QED
  BY <1>1, <1>2, <1>3, TriedFiles DEF FilesAfter, Licensed

\* What the input wants is installed, and its files are there, before systemd reads the
\* units and before anything starts.
LEMMA InstalledFirst ==
    ASSUME NoFailures, IInv, ResourcesStay, Owed, Synced, pc = "apply", NEW s \in todo, Tries(s),
           s.op \in {"DaemonReload", "StartSystemdService"},
           NEW r \in Resource, goal.unit[r] # None
    PROVE  /\ goal \in Inputs /\ installed[r] = goal.unit[r] /\ loaded'[r] \in {None, goal.unit[r]}
           /\ UNCHANGED files
           /\ r \in Build => files[r] = goal.files[r]
<1>1. r \in Unit /\ goal \in Inputs
  BY ResourceIsUnit DEF Owed
<1>2. \A t \in todo : OpRank[t.op] >= 18
  BY NothingBefore DEF OpRank, Order, IInv, RunInv, RunTyped, Step
<1>3. installed[r] = goal.unit[r]
  <2>1. Task("WriteFsQuadletUnitFile", r, None) \notin todo
    BY <1>2 DEF OpRank, Order, Task
  <2> QED
    BY <1>1, <2>1, StayingResource DEF Owed, UnitsOwed
<1>4. ASSUME r \in Build
      PROVE  files[r] = goal.files[r]
  <2>1. r \in Stored
    BY <1>4 DEF Stored
  <2>2. files[r] \in FileMap /\ goal.files[r] \in FileMap
    BY <1>1, <2>1, InputsTyped DEF Input, IInv, HostInv, HostTyped
  <2>3. ASSUME NEW f \in File
        PROVE  files[r][f] = goal.files[r][f]
    <3>1. /\ Task("WriteFsContainerConfigFile", r, f) \notin todo
          /\ Task("WriteFsBuildContextFile", r, f) \notin todo
          /\ Task("DeleteFsContainerConfigFile", r, f) \notin todo
          /\ Task("DeleteFsBuildContextFile", r, f) \notin todo
      BY <1>2 DEF OpRank, Order, Task
    <3> QED
      BY <2>1, <3>1 DEF Owed, FilesOwed
  <2> QED
    BY <2>2, <2>3 DEF FileMap
<1>5. loaded'[r] \in {None, installed[r]}
  <2>1. CASE s.op = "DaemonReload"
    BY <1>1, <2>1, TriedServices DEF Generated
  <2>2. CASE s.op = "StartSystemdService"
    <3>1. Task("DaemonReload", None, None) \notin todo
      BY <2>2, NothingBefore DEF OpRank, Order, Task
    <3> QED
      BY <1>1, <2>2, <3>1, TriedServices DEF Synced, Generates
  <2> QED
    BY <2>1, <2>2
<1>6. UNCHANGED files
  BY TriedAs, TriedStart, NothingFails DEF DaemonReload, host, disk
<1> QED
  BY <1>1, <1>3, <1>4, <1>5, <1>6

\* A service that is outdated after an operation was so before, and that operation is
\* neither the daemon-reload nor a start.
LEMMA OutdatedBefore ==
    ASSUME NoFailures, IInv, IInv', ResourcesStay, Owed, Synced, pc = "apply", NEW s \in todo, Tries(s),
           goal' = goal, NEW r \in Resource, Outdated(r)'
    PROVE  /\ Outdated(r) /\ s.op \notin {"DaemonReload", "StartSystemdService"}
           /\ loaded' = loaded
<1>1. goal.unit[r] # None /\ loaded'[r] # None
  BY DEF Outdated
<1>2. s.op \notin {"DaemonReload", "StartSystemdService"}
  <2> SUFFICES ASSUME s.op \in {"DaemonReload", "StartSystemdService"} PROVE FALSE
    OBVIOUS
  <2>1. /\ loaded'[r] \in {None, goal.unit[r]} /\ UNCHANGED files
        /\ r \in Build => files[r] = goal.files[r]
    BY <1>1, InstalledFirst
  <2>2. SameButNeutral(loaded'[r], goal'.unit[r])
    BY <1>1, <2>1 DEF SameButNeutral
  <2>3. r \in Build => files'[r] = goal'.files[r]
    BY <2>1
  <2> QED
    BY <2>2, <2>3 DEF Outdated
<1>3. loaded' = loaded
  BY <1>2, TriedServices
<1>4. ASSUME r \in Build, files'[r] # goal.files[r]
      PROVE  files[r] # goal.files[r]
  <2>1. r \in Stored /\ goal \in Inputs
    BY <1>4 DEF Stored, Owed
  <2>2. files'[r] \in FileMap /\ goal.files[r] \in FileMap
    BY <2>1, InputsTyped DEF Input, IInv, HostInv, HostTyped
  <2>3. PICK f \in File : files'[r][f] # goal.files[r][f]
    BY <1>4, <2>2 DEF FileMap
  <2> QED
    BY <1>1, <1>4, <2>3, BuildFilesSettle
<1> QED
  BY <1>1, <1>2, <1>3, <1>4 DEF Outdated

\* A service that is down and out is not used.
LEMMA IdleIsUnused ==
    ASSUME IInv, Served, CreatedAsOnHost, NEW r \in Resource, Idle(r), loaded[r] # None
    PROVE  ~InUse(r)
<1> SUFFICES ASSUME NEW c \in Container, ran[c] # None, r \in ran[c].spec.refs PROVE FALSE
  BY DEF InUse
<1>1. c \in Unit /\ Active(c) /\ IsRunning(c) /\ loaded[c] # None
  BY DEF Unit, Served, Active, IsRunning
<1>2. SameButNeutral(ran[c].spec, loaded[c])
  BY <1>1 DEF CreatedAsOnHost, AsOnHost
<1>3. ran[c].spec \in UnitFile /\ loaded[c] \in UnitFile
  BY <1>1 DEF IInv, HostInv, HostTyped, Maybe, Snapshot
<1>4. ran[c].spec.refs = loaded[c].refs
  BY <1>2, <1>3, NeutralKeeps
<1> QED
  BY <1>1, <1>4 DEF Idle

\* A plan stops what it makes outdated, and deletes what that made.
LEMMA PlanOutdates ==
    ASSUME NoFailures, IInv, ResourcesStay, Synced, NEW in \in Inputs, Plan(in),
           NEW r \in Resource, Outdated(r)'
    PROVE  Stop(r) \in todo' /\ (r \notin Build => Deletes(r)')
<1>1. /\ todo' = BuildPlan(in) /\ goal' = in /\ pc = "idle" /\ Plannable(in)
      /\ UNCHANGED <<installed, files, loaded>>
  BY PlanIs
<1>2. r \in Unit /\ r \notin Container
  BY ResourceIsUnit
<1>3. in.unit[r] # None /\ loaded[r] # None /\ loaded[r] = installed[r] /\ Rendered(in, r) = in.unit[r]
  BY <1>1, <1>2, StayingResource DEF Outdated, Synced, Generates
<1>4. r \in Recreated(in)
  <2>1. CASE ~SameButNeutral(loaded[r], in.unit[r])
    BY <1>2, <1>3, <2>1 DEF Recreated, MeaningfullyChanged, SameButNeutral, Desired
  <2>2. CASE r \in Build /\ files[r] # in.files[r]
    <3>1. r \in Stored
      BY <2>2 DEF Stored
    <3>2. files[r] \in FileMap /\ in.files[r] \in FileMap
      BY <3>1, InputsTyped DEF Input, IInv, HostInv, HostTyped
    <3>3. PICK f \in File : files[r][f] # in.files[r][f]
      BY <2>2, <3>2 DEF FileMap
    <3>4. FilesDiffer(in, r)
      BY <3>3 DEF FilesDiffer, ChangedFiles, StaleFiles
    <3> QED
      BY <1>2, <1>3, <2>2, <3>4 DEF Recreated, Desired
  <2> QED
    BY <1>1, <2>1, <2>2 DEF Outdated
<1>5. Stop(r) \in todo'
  BY <1>1, <1>4 DEF BuildPlan, ServiceOps, StopSystemdServices, Ops, Stop
<1>6. ASSUME r \notin Build
      PROVE  Deletes(r)'
  <2>1. CASE r \in Volume
    <3>1. [op |-> "DeletePodmanVolume", unit |-> r, item |-> None] \in todo'
      BY <1>1, <1>4, <2>1 DEF BuildPlan, UnitOps, Ops
    <3> QED
      BY <3>1 DEF Deletes
  <2>2. CASE r \in Network
    <3>1. [op |-> "DeletePodmanNetwork", unit |-> r, item |-> None] \in todo'
      BY <1>1, <1>4, <2>2 DEF BuildPlan, UnitOps, Ops
    <3> QED
      BY <3>1 DEF Deletes
  <2> QED
    BY <1>6, <2>1, <2>2 DEF Resource
<1> QED
  BY <1>5, <1>6

\* An operation of the run leaves what is outdated down.
LEMMA OutdatedStep ==
    ASSUME NoFailures, IInv, IInv', ResourcesStay, Owed, Synced, Served, CreatedAsOnHost, OutdatedIsDown,
           [Next]_vars, ~Reboot, pc = "apply", NEW s \in todo, Tries(s), todo' = todo \ {s}, goal' = goal,
           NEW r \in Resource, Outdated(r)'
    PROVE  /\ Stop(r) \in todo' \/ Idle(r)'
           /\ r \notin Build => Deletes(r)' \/ (Stop(r) \notin todo' /\ resource'[r] = None)
<1>1. /\ Outdated(r) /\ s.op \notin {"DaemonReload", "StartSystemdService"}
      /\ loaded' = loaded
  BY OutdatedBefore
<1>2. ASSUME Idle(r)
      PROVE  Idle(r)'
  <2>1. ASSUME NEW t \in todo, Tries(t)
        PROVE  t = s
    BY <2>1, OpTaken DEF Tries
  <2> QED
    BY <1>1, <1>2, <2>1, IdleStays
<1>3. Stop(r) \in todo' \/ Idle(r)'
  <2>1. CASE s = Stop(r)
    BY <2>1, StoppedIsIdle
  <2>2. CASE s # Stop(r)
    BY <1>1, <1>2, <2>2 DEF OutdatedIsDown
  <2> QED
    BY <2>1, <2>2
<1>4. ASSUME r \notin Build
      PROVE  Deletes(r)' \/ (Stop(r) \notin todo' /\ resource'[r] = None)
  <2>1. CASE Stop(r) \notin todo /\ resource[r] = None
    BY <1>1, <2>1, TriedResources
  <2>2. CASE Deletes(r)
    <3>1. PICK t \in todo : t.unit = r /\ t.op \in {"DeletePodmanVolume", "DeletePodmanNetwork"}
      BY <2>2 DEF Deletes
    <3>2. CASE t # s
      BY <3>1, <3>2 DEF Deletes
    <3>3. CASE t = s
      <4>1. Stop(r) \notin todo
        BY <3>1, <3>3, NothingBefore DEF OpRank, Order, Stop
      <4>2. Idle(r) /\ loaded[r] # None
        BY <1>1, <4>1 DEF OutdatedIsDown, Outdated
      <4>3. resource'[r] = None
        BY <1>1, <3>1, <3>3, <4>2, IdleIsUnused, TriedResources
      <4> QED
        BY <4>1, <4>3
    <3> QED
      BY <3>2, <3>3
  <2> QED
    BY <1>1, <1>4, <2>1, <2>2 DEF OutdatedIsDown
<1> QED
  BY <1>3, <1>4

\* The same for every step.
LEMMA OutdatedStays ==
    ASSUME NoFailures, NoCrashes, ResourcesStay, IInv, Owed, Synced, Served, CreatedAsOnHost,
           OutdatedIsDown, [Next]_vars
    PROVE  OutdatedIsDown'
<1> SUFFICES ASSUME NEW r \in Resource, Outdated(r)'
             PROVE  /\ Stop(r) \in todo' \/ Idle(r)'
                    /\ r \notin Build => Deletes(r)' \/ (Stop(r) \notin todo' /\ resource'[r] = None)
  BY DEF OutdatedIsDown
<1>1. pc' = "apply" /\ pc # "abort" /\ IInv'
  BY NextKeeps DEF Outdated, Owed
<1>2. ~Reboot
  BY <1>1 DEF Reboot, Ends
<1>3. ASSUME NEW in \in Inputs, Plan(in)
      PROVE  Stop(r) \in todo' /\ (r \notin Build => Deletes(r)')
  BY <1>3, PlanOutdates
<1>4. CASE UNCHANGED host /\ UNCHANGED run
  BY <1>4 DEF host, disk, podman, systemd, run, OutdatedIsDown, Outdated, Idle, Active, IsRunning, Deletes
<1>5. ASSUME NEW d \in Container, ContainerExit(d) \/ AutoRestart(d)
      PROVE  /\ Stop(r) \in todo' \/ Idle(r)'
             /\ r \notin Build => Deletes(r)' \/ (Stop(r) \notin todo' /\ resource'[r] = None)
  <2>1. UNCHANGED <<pc, todo, goal, files, loaded>>
    BY <1>5, HostStep DEF run, disk
  <2>2. Outdated(r)
    BY <2>1 DEF Outdated
  <2>3. ASSUME Idle(r)
        PROVE  Idle(r)'
    <3>1. ASSUME NEW t \in todo PROVE ~Tries(t)
      BY <2>1, <3>1, OpTaken DEF Tries
    <3> QED
      BY <1>2, <2>3, <3>1, IdleStays
  <2>4. ASSUME Idle(r)
        PROVE  resource'[r] = resource[r]
    <3>1. CASE ContainerExit(d)
      BY <3>1 DEF ContainerExit, podman
    <3>2. CASE AutoRestart(d)
      <4>1. loaded[d] # None /\ IsRunning(d) /\ loaded[r] # None
        BY <2>2, <3>2 DEF AutoRestart, CanStart, IsRunning, Outdated
      <4>2. r \notin loaded[d].refs
        BY <2>4, <4>1 DEF Idle
      <4> QED
        BY <3>2, <4>2 DEF AutoRestart, ServiceStarts, ResourcesAfterStart
    <3> QED
      BY <1>5, <3>1, <3>2
  <2> QED
    BY <2>1, <2>2, <2>3, <2>4 DEF OutdatedIsDown, Deletes
<1> QED
  BY <1>1, <1>2, <1>3, <1>4, <1>5, StepKinds, OutdatedStep

\* What is there is still that of its service when systemd has read the new units,
LEMMA MadeReloads ==
    ASSUME NoFailures, ResourcesStay, IInv, Owed, Synced, Closed, FromInputs, Served, MadeByService,
           OutdatedIsDown, pc = "apply", NEW s \in todo, Tries(s), s.op = "DaemonReload",
           NEW r \in Resource, resource[r] # None, r \in Build => Active(r)
    PROVE  loaded'[r] # None /\ loaded'[r].def = loaded[r].def
<1>1. r \in Unit /\ goal \in Inputs
  BY ResourceIsUnit DEF Owed
<1>2. loaded[r] # None
  BY DEF MadeByService
<1>3. PICK in \in Inputs : in.unit[r] # None /\ loaded[r] = Rendered(in, r)
  BY <1>1, <1>2 DEF Served
<1>4. goal.unit[r] # None /\ goal.unit[r] \in UnitFile /\ loaded[r] \in UnitFile
  BY <1>1, <1>3, StayingResource
<1>5. installed[r] = goal.unit[r] /\ goal.unit[r].def # None /\ goal.unit[r].refs = {}
  BY <1>1, <1>4, InstalledFirst, StayingResource
<1>6. loaded'[r] = goal.unit[r]
  BY <1>1, <1>4, <1>5, TriedServices DEF Generated
<1>7. ~Outdated(r)
  <2> SUFFICES ASSUME Outdated(r) PROVE FALSE
    OBVIOUS
  <2>1. Stop(r) \notin todo /\ ~Deletes(r)
    BY NothingBefore DEF OpRank, Order, Stop, Deletes
  <2> QED
    BY <2>1 DEF OutdatedIsDown, Idle
<1>8. SameButNeutral(loaded[r], goal.unit[r])
  BY <1>2, <1>4, <1>7 DEF Outdated
<1> QED
  BY <1>4, <1>6, <1>8, NeutralKeeps

\* while the files of its build change
LEMMA MadeFiles ==
    ASSUME NoFailures, ResourcesStay, IInv, IInv', Owed, Served, MadeByService, OutdatedIsDown,
           pc = "apply", NEW s \in todo, Tries(s), NEW r \in Build, resource[r] # None, Active(r)
    PROVE  files'[r] = files[r]
<1> SUFFICES ASSUME files'[r] # files[r] PROVE FALSE
  OBVIOUS
<1>1. r \in Resource /\ r \in Unit /\ r \in Stored /\ goal \in Inputs
  BY ResourceIsUnit DEF Resource, Stored, Owed
<1>2. loaded[r] # None
  BY <1>1 DEF MadeByService
<1>3. goal.unit[r] # None
  BY <1>1, <1>2, StayingResource DEF Served
<1>4. files[r] \in FileMap /\ files'[r] \in FileMap
  BY <1>1 DEF IInv, HostInv, HostTyped
<1>5. PICK f \in File : files'[r][f] # files[r][f]
  BY <1>4 DEF FileMap
<1>6. files[r] # goal.files[r]
  BY <1>3, <1>5, BuildFilesSettle
<1>7. Outdated(r)
  BY <1>2, <1>3, <1>6 DEF Outdated
<1>8. Stop(r) \notin todo
  <2>1. s.op \in {"WriteFsContainerConfigFile", "WriteFsBuildContextFile",
                  "DeleteFsContainerConfigFile", "DeleteFsBuildContextFile",
                  "DeleteFsContainerConfig", "DeleteFsBuildContext"}
    BY <1>1, <1>5, TriedFiles DEF FilesAfter
  <2> QED
    BY <2>1, NothingBefore DEF OpRank, Order, Stop
<1> QED
  BY <1>1, <1>7, <1>8 DEF OutdatedIsDown, Idle

\* and when the host boots, where no input changes it.
LEMMA MadeBoots ==
    ASSUME NoReboots \/ ResourcesFixed, ResourcesStay, IInv, FromInputs, Served, MadeByService, Reboot
    PROVE  MadeByService'
<1> SUFFICES ASSUME NEW r \in Resource, resource'[r] # None, r \in Build => Active(r)'
             PROVE  /\ loaded'[r] # None /\ resource'[r].def = loaded'[r].def
                    /\ r \in Build => resource'[r].files = files'[r]
  BY DEF MadeByService
<1>1. r \in Unit /\ r \notin Container /\ UNCHANGED <<installed, resource>> /\ loaded' = Generated
  BY ResourceIsUnit DEF Reboot, disk, podman
<1>2. r \notin Build
  BY <1>1 DEF Reboot, Active
<1>3. loaded[r] # None /\ resource[r].def = loaded[r].def /\ installed[r] # None
  BY <1>1, <1>2 DEF MadeByService, Served
<1>4. PICK in \in Inputs : in.unit[r] # None /\ loaded[r] = Rendered(in, r)
  BY <1>1, <1>3 DEF Served
<1>5. PICK new \in Inputs : new.unit[r] # None /\ installed[r] = Rendered(new, r)
  BY <1>1, <1>3 DEF FromInputs
<1>6. /\ loaded[r] = in.unit[r] /\ in.unit[r] \in UnitFile
      /\ installed[r] = new.unit[r] /\ new.unit[r] \in UnitFile
      /\ new.unit[r].refs = {} /\ new.unit[r].def # None
  BY <1>4, <1>5, StayingResource
<1>7. loaded'[r] = installed[r]
  BY <1>1, <1>3, <1>6 DEF Generated
<1>8. ResourcesFixed
  BY DEF Reboot, Fault, NoReboots
<1>9. SameButNeutral(in.unit[r], new.unit[r])
  BY <1>4, <1>8 DEF ResourcesFixed, SameButNeutral
<1> QED
  BY <1>1, <1>2, <1>3, <1>6, <1>7, <1>9, NeutralKeeps

\* Together:
LEMMA MadeStays ==
    ASSUME NoFailures, NoCrashes, NoReboots \/ ResourcesFixed, ResourcesStay, IInv, FromInputs,
           Owed, Closed, Synced, Served, Declared, MadeByService, OutdatedIsDown, [Next]_vars
    PROVE  MadeByService'
<1>1. pc # "abort" /\ IInv'
  BY NextKeeps DEF Owed
<1>2. CASE UNCHANGED <<files, resource, loaded, status>>
  BY <1>2 DEF MadeByService, Active
<1>3. ASSUME NEW s \in todo, Tries(s), pc = "apply", s.op # "StartSystemdService"
      PROVE  MadeByService'
  <2> SUFFICES ASSUME NEW r \in Resource, resource'[r] # None, r \in Build => Active(r)'
               PROVE  /\ loaded'[r] # None /\ resource'[r].def = loaded'[r].def
                      /\ r \in Build => resource'[r].files = files'[r]
    BY DEF MadeByService
  <2>1. r \in Unit /\ resource'[r] = resource[r]
    BY <1>3, ResourceIsUnit, TriedResources
  <2>2. Active(r)' => Active(r)
    BY <1>3, <2>1, TriedServices DEF Active
  <2>3. /\ loaded[r] # None /\ resource[r].def = loaded[r].def
        /\ r \in Build => resource[r].files = files[r]
    BY <2>1, <2>2 DEF MadeByService
  <2>4. r \in Build => files'[r] = files[r]
    BY <1>1, <1>3, <2>1, <2>2, MadeFiles
  <2>5. loaded'[r] # None /\ loaded'[r].def = loaded[r].def
    <3>1. CASE s.op = "DaemonReload"
      BY <1>3, <2>1, <2>2, <3>1, MadeReloads
    <3>2. CASE s.op # "DaemonReload"
      BY <1>3, <2>3, <3>2, TriedServices
    <3> QED
      BY <3>1, <3>2
  <2> QED
    BY <2>1, <2>3, <2>4, <2>5
<1>4. ASSUME NEW s \in todo, Tries(s), s.op = "StartSystemdService"
      PROVE  MadeByService'
  <2>1. CASE UNCHANGED host
    BY <1>2, <2>1 DEF host, disk, podman, systemd
  <2>2. CASE CanStart(s.unit) /\ ServiceStarts(s.unit) /\ UNCHANGED <<disk, secrets, loaded>>
    BY <1>4, <2>2, TriedStart, StartMakes DEF disk
  <2>3. CASE UNCHANGED <<disk, podman, loaded, ran>> /\ \E to : status' = [status EXCEPT ![s.unit] = to]
    <3>1. \A r \in Resource : status'[r] = status[r]
      <4>1. s.unit \in Container /\ status \in [Unit -> {"inactive", "active", "activating"}]
        BY <1>4, TriedStart DEF IInv, HostInv, HostTyped
      <4>2. PICK to : status' = [status EXCEPT ![s.unit] = to]
        BY <2>3
      <4> QED
        BY <4>1, <4>2, ResourceIsUnit
    <3> QED
      BY <2>3, <3>1 DEF MadeByService, Active, disk, podman
  <2>4. CASE UNCHANGED <<disk, podman, loaded, ran, status>>
    BY <1>2, <2>4 DEF disk, podman
  <2> QED
    BY <1>4, <2>1, <2>2, <2>3, <2>4, TriedStart
<1>5. ASSUME NEW d \in Container, ContainerExit(d)
      PROVE  MadeByService'
  <2>1. \A r \in Resource : status'[r] = status[r]
    BY <1>5, ResourceIsUnit DEF ContainerExit, IInv, HostInv, HostTyped
  <2> QED
    BY <1>5, <2>1 DEF ContainerExit, MadeByService, Active, disk, podman
<1>6. ASSUME NEW d \in Container, AutoRestart(d)
      PROVE  MadeByService'
  BY <1>6, StartMakes DEF AutoRestart, disk
<1>7. CASE (\E in \in Inputs : Plan(in)) \/ UNCHANGED host
  BY <1>2, <1>7 DEF Plan, host, disk, podman, systemd
<1> QED
  BY <1>1, <1>3, <1>4, <1>5, <1>6, <1>7, StepKinds, MadeBoots

\* A container that is created is created with what the host has.
LEMMA StartCreates ==
    ASSUME IInv, Declared, MadeByService, CreatedAsOnHost,
           NEW c \in Container, CanStart(c), ServiceStarts(c), UNCHANGED <<disk, secrets, loaded>>,
           \A d \in Container : Reload(d) \in todo => Reload(d) \in todo'
    PROVE  CreatedAsOnHost'
<1> SUFFICES ASSUME NEW d \in Container, Active(d)' PROVE AsOnHost(d)'
  BY DEF CreatedAsOnHost
<1>1. c \in Unit /\ d \in Unit /\ d \notin Resource /\ UNCHANGED <<files, dirs>>
  BY UnitTypesDisjoint DEF Unit, disk
<1>2. loaded[c] # None /\ loaded[c] \in UnitFile
  BY <1>1 DEF CanStart, IInv, HostInv, HostTyped, Maybe
<1>3. CASE d # c
  <2>1. ran'[d] = ran[d] /\ status'[d] = status[d]
    BY <1>1, <1>2, <1>3 DEF ServiceStarts, IInv, HostInv, HostTyped, UnitFile
  <2>2. AsOnHost(d)
    BY <2>1 DEF CreatedAsOnHost, Active
  <2> QED
    BY <1>1, <2>1, <2>2 DEF AsOnHost, Mounted, SameButNeutral
<1>4. CASE d = c
  <2>1. /\ ran'[c].spec = loaded[c]
        /\ \A f \in File : ran'[c].files[f] = IF f \in loaded[c].mounts THEN files[c][f] ELSE None
        /\ \A e \in Dir : ran'[c].dirs[e] = IF e \in loaded[c].mounts THEN dirs[c][e] ELSE None
        /\ \A x \in Secret : ran'[c].secrets[x] = IF x \in loaded[c].secrets THEN secrets[x] ELSE None
        /\ \A r \in Resource : ran'[c].resource[r] = IF r \in loaded[c].refs THEN resource'[r] ELSE None
    BY DEF ServiceStarts, IInv, HostInv, HostTyped
  <2>2. MadeByService'
    BY <1>1, StartMakes
  <2>3. ASSUME NEW r \in loaded[c].refs
        PROVE  /\ ran'[c].resource[r].def = loaded[r].def
               /\ r \in Build => ran'[c].resource[r].files = files[r]
    <3>1. r \in Resource /\ r \in Unit
      BY <1>2, ResourceIsUnit DEF UnitFile
    <3>2. resource'[r] # None /\ Active(r)'
      BY <3>1 DEF CanStart, ServiceStarts, Active
    <3> QED
      BY <1>1, <2>1, <2>2, <3>1, <3>2 DEF MadeByService
  <2>4. loaded[c].secrets \subseteq Secret
    BY <1>2 DEF UnitFile
  <2> QED
    BY <1>1, <1>4, <2>1, <2>3, <2>4 DEF AsOnHost, Mounted, SameButNeutral
<1> QED
  BY <1>3, <1>4

\* What runs is reloaded into what its input says its configDirs are.
LEMMA ReloadRefreshes ==
    ASSUME NoFailures, ResourcesStay, IInv, Owed, Closed, Synced, Served, Reloads, CreatedAsOnHost,
           pc = "apply", NEW s \in todo, Tries(s), s.op = "ReloadSystemdService",
           todo' = todo \ {s}
    PROVE  CreatedAsOnHost'
<1> SUFFICES ASSUME NEW d \in Container, Active(d)' PROVE AsOnHost(d)'
  BY DEF CreatedAsOnHost
<1>1. d \in Unit
  BY DEF Unit
<1>2. UNCHANGED <<status, loaded, secrets>>
  BY TriedRan, TriedServices, TriedAs, Zenon
     DEF ReloadSystemdService, ExecUnit, Fails, host, podman
<1>3. UNCHANGED <<files, dirs>>
  BY TriedAs, Zenon DEF ReloadSystemdService, ExecUnit, Fails, host, disk
<1>4. AsOnHost(d) /\ Active(d)
  BY <1>2 DEF CreatedAsOnHost, Active
<1>5. CASE s.unit # d
  <2>1. ran'[d] = ran[d]
    BY <1>5, TriedRan DEF IInv, HostInv, HostTyped
  <2>2. Reload(d) \in todo => Reload(d) \in todo'
    BY <1>5 DEF Reload, Task
  <2> QED
    BY <1>2, <1>3, <1>4, <2>1, <2>2 DEF AsOnHost, Mounted
<1>6. CASE s.unit = d
  <2>1. goal \in Inputs /\ goal.unit[d] # None /\ goal.unit[d].reloadable
    BY <1>6 DEF Owed, Reloads
  <2>2. \A t \in todo : OpRank[t.op] >= 19
    BY NothingBefore DEF OpRank, Order, IInv, RunInv, RunTyped, Step
  <2>3. loaded[d] = Rendered(goal, d)
    <3>1. Task("WriteFsQuadletUnitFile", d, None) \notin todo /\ Task("DaemonReload", None, None) \notin todo
      BY <2>2 DEF OpRank, Order, Task
    <3>2. installed[d] = Rendered(goal, d)
      BY <1>1, <2>1, <3>1 DEF Owed, UnitsOwed
    <3>3. loaded[d] # None
      BY <1>4 DEF Served, Active, IsRunning
    <3> QED
      BY <1>1, <3>1, <3>2, <3>3 DEF Synced, Generates
  <2>4. goal.unit[d] \in UnitFile
    BY <1>1, <2>1, InputsTyped DEF Input, Maybe
  <2>5. /\ loaded[d].reloadable /\ loaded[d] # None
        /\ loaded[d].mounts = {f \in File : goal.files[d][f] # None} \cup {e \in Dir : goal.dirs[d][e] # None}
    BY <1>1, <2>1, <2>3, <2>4, RenderedWhole DEF Rendered, UnitFile
  <2>6. ran' = [ran EXCEPT ![d].dirs = dirs[d]]
    BY <1>4, <1>6, <2>5, TriedRan
  <2>7. ran[d] # None /\ ran[d] \in Snapshot
    BY <1>4 DEF IInv, HostInv, HostTyped, ActiveWasCreated, Maybe
  <2>8. ran'[d] = [ran[d] EXCEPT !.dirs = dirs[d]]
    BY <2>6 DEF IInv, HostInv, HostTyped
  <2>9. /\ ran'[d].spec = ran[d].spec /\ ran'[d].files = ran[d].files /\ ran'[d].dirs = dirs[d]
        /\ ran'[d].secrets = ran[d].secrets /\ ran'[d].resource = ran[d].resource
    BY <2>7, <2>8 DEF Snapshot
  <2>10. ASSUME NEW e \in Dir
         PROVE  dirs[d][e] = Mounted(d, e, dirs[d])
    <3>1. /\ Task("WriteFsContainerConfigDir", d, e) \notin todo
          /\ Task("DeleteFsContainerConfigDir", d, e) \notin todo
      BY <2>2 DEF OpRank, Order, Task
    <3>2. dirs[d][e] = goal.dirs[d][e]
      BY <2>1, <3>1 DEF Owed, DirsOwed
    <3> QED
      BY <2>5, <3>2 DEF Mounted
  <2> QED
    BY <1>2, <1>3, <1>4, <2>9, <2>10 DEF AsOnHost, Mounted
<1> QED
  BY <1>5, <1>6

\* No other operation changes what it should not.
LEMMA CreatedStep ==
    ASSUME NoFailures, ResourcesStay, IInv, IInv', Owed, Closed, Served, LeftAlone, CreatedAsOnHost,
           pc = "apply", NEW s \in todo, Tries(s), todo' = todo \ {s},
           s.op \notin {"StartSystemdService", "ReloadSystemdService"}
    PROVE  CreatedAsOnHost'
<1> SUFFICES ASSUME NEW c \in Container, Active(c)' PROVE AsOnHost(c)'
  BY DEF CreatedAsOnHost
<1>1. c \in Unit
  BY DEF Unit
<1>2. Active(c) /\ IsRunning(c) /\ ran'[c] = ran[c]
  <2>1. CASE s.op = "StopSystemdService"
    <3>1. ASSUME ServiceStops(StoppedWith(s.unit))
          PROVE  Active(c) /\ ran'[c] = ran[c]
      BY <1>1, <3>1 DEF ServiceStops, Active
    <3> QED
      BY <2>1, <3>1, TriedRan DEF Active, IsRunning
  <2>2. CASE s.op # "StopSystemdService"
    BY <2>2, TriedRan DEF Active, IsRunning
  <2> QED
    BY <2>1, <2>2
<1>3. AsOnHost(c) /\ loaded[c] # None /\ loaded[c] \in UnitFile
  BY <1>1, <1>2 DEF CreatedAsOnHost, Served, IInv, HostInv, HostTyped, Maybe
<1>4. Reload(c) \in todo => Reload(c) \in todo'
  BY DEF Reload, Task
<1>5. CASE s.op \in {"PullPodmanImage", "StopSystemdService"}
  <2>1. UNCHANGED <<loaded, files, dirs, secrets>>
    <3>1. loaded' = loaded
      BY <1>5, TriedServices
    <3>2. UNCHANGED <<files, dirs, secrets>>
      BY <1>5, TriedAs
         DEF PullPodmanImage, StopSystemdService, ExecUnit, Fails, host, disk, podman
    <3> QED
      BY <3>1, <3>2
  <2> QED
    BY <1>2, <1>3, <1>4, <2>1 DEF AsOnHost, Mounted
<1>6. CASE s.op \notin {"PullPodmanImage", "StopSystemdService"}
  <2>1. Stop(c) \notin todo
    BY <1>6, NothingBefore DEF OpRank, Order, Stop, IInv, RunInv, RunTyped, Step
  <2>2. Undisturbed(c) /\ ~Touches(s, c)
    BY <1>2, <2>1 DEF LeftAlone, Undisturbed
  <2>3. CASE s.op = "DaemonReload"
    <3>1. UNCHANGED <<files, dirs, secrets>> /\ loaded' = Generated
      BY <2>3, TriedAs, NothingFails DEF DaemonReload, disk, podman
    <3>2. ASSUME NEW u \in {c} \cup loaded[c].refs
          PROVE  loaded'[u] # None /\ SameButNeutral(loaded'[u], loaded[u]) /\ loaded[u] # None /\ u \in Unit
      <4>1. installed[u] # None /\ SameButNeutral(installed[u], loaded[u]) /\ loaded[u] # None
        BY <2>2 DEF Undisturbed
      <4>2. u \in Unit /\ (u \in Container \/ u \in Resource)
        BY <1>1, <1>3, ResourceIsUnit DEF UnitFile
      <4>3. installed[u].def # None /\ \A r \in installed[u].refs : installed[r] # None
        <5>1. CASE u \in Container
          BY <4>1, <5>1 DEF Closed
        <5>2. CASE u \in Resource
          <6>1. /\ installed[u] \in UnitFile /\ loaded[u] \in UnitFile
            BY <4>1, <4>2 DEF IInv, HostInv, HostTyped, Maybe
          <6>2. PICK in \in Inputs : in.unit[u] # None /\ loaded[u] = Rendered(in, u)
            BY <4>1, <4>2 DEF Served
          <6>3. loaded[u].def # None /\ loaded[u].refs = {}
            BY <5>2, <6>2, StayingResource
          <6> QED
            BY <4>1, <6>1, <6>3, NeutralKeeps
        <5> QED
          BY <4>2, <5>1, <5>2
      <4> QED
        BY <3>1, <4>1, <4>2, <4>3 DEF Generated
    <3>3. ASSUME NEW u \in {c} \cup loaded[c].refs
          PROVE  /\ loaded'[u].def = loaded[u].def /\ loaded'[u].refs = loaded[u].refs
                 /\ loaded'[u].secrets = loaded[u].secrets /\ loaded'[u].mounts = loaded[u].mounts
      <4>1. loaded[u] \in UnitFile
        BY <3>2 DEF IInv, HostInv, HostTyped, Maybe
      <4>2. loaded'[u] \in UnitFile
        BY <3>1, <3>2 DEF Generated, IInv, HostInv, HostTyped, Maybe
      <4> QED
        BY <3>2, <4>1, <4>2, NeutralKeeps
    <3>4. SameButNeutral(ran[c].spec, loaded'[c])
      BY <1>3, <3>2 DEF AsOnHost, SameButNeutral
    <3> QED
      BY <1>2, <1>3, <1>4, <3>1, <3>3, <3>4 DEF AsOnHost, Mounted
  <2>4. CASE s.op # "DaemonReload"
    <3>1. loaded' = loaded
      BY <2>4, TriedServices
    <3>2. ASSUME NEW f \in File
          PROVE  Mounted(c, f, files[c])' = Mounted(c, f, files[c])
      <4>1. c \in Stored /\ c \notin Build
        BY UnitTypesDisjoint DEF Stored, Resource
      <4>2. s.op \in {"WriteFsBuildContextFile", "DeleteFsBuildContextFile", "DeleteFsBuildContext"}
            => s.unit # c
        BY <4>1 DEF IInv, RunInv, RunTyped, Step
      <4>3. f \in loaded[c].mounts => files'[c][f] = files[c][f]
        BY <2>2, <4>1, <4>2, TriedFiles DEF FilesAfter, Touches
      <4> QED
        BY <3>1, <4>3 DEF Mounted
    <3>3. ASSUME NEW d \in Dir, Reload(c) \notin todo
          PROVE  Mounted(c, d, dirs[c])' = Mounted(c, d, dirs[c])
      <4>1. d \in loaded[c].mounts => dirs'[c][d] = dirs[c][d]
        BY <2>2, <3>3, TriedDirs DEF DirsAfter, Touches
      <4> QED
        BY <3>1, <4>1 DEF Mounted
    <3>4. ASSUME NEW x \in loaded[c].secrets
          PROVE  secrets'[x] = secrets[x]
      <4>1. x \in Secret
        BY <1>3 DEF UnitFile
      <4> QED
        BY <2>2, <4>1, TriedSecrets DEF SecretsAfter, Touches
    <3>5. ASSUME NEW r \in loaded[c].refs, r \in Build
          PROVE  files'[r] = files[r]
      <4>1. r \in Stored /\ r \notin Container /\ goal \in Inputs
        BY <3>5, UnitTypesDisjoint DEF Stored, Resource, Owed
      <4>2. s.op \in {"WriteFsContainerConfigFile", "DeleteFsContainerConfigFile", "DeleteFsContainerConfig"}
            => s.unit # r
        BY <4>1 DEF IInv, RunInv, RunTyped, Step
      <4>3. ASSUME NEW f \in File
            PROVE  files'[r][f] = files[r][f]
        BY <2>2, <3>5, <4>1, <4>2, TriedFiles DEF FilesAfter, Touches
      <4>4. files[r] \in FileMap /\ files'[r] \in FileMap
        BY <4>1 DEF IInv, HostInv, HostTyped
      <4> QED
        BY <4>3, <4>4 DEF FileMap
    <3> QED
      BY <1>2, <1>3, <1>4, <3>1, <3>2, <3>3, <3>4, <3>5 DEF AsOnHost
  <2> QED
    BY <2>3, <2>4
<1> QED
  BY <1>5, <1>6

\* Together:
LEMMA CreatedStays ==
    ASSUME NoFailures, NoCrashes, ResourcesStay, IInv, Owed, Closed, Synced, Served, Declared,
           Reloads, LeftAlone, MadeByService, CreatedAsOnHost, [Next]_vars
    PROVE  CreatedAsOnHost'
<1>1. pc # "abort" /\ IInv'
  BY NextKeeps DEF Owed
<1>2. CASE UNCHANGED host /\ (UNCHANGED todo \/ todo = {})
  BY <1>2 DEF CreatedAsOnHost, AsOnHost, Mounted, Active, host, disk, podman, systemd
<1>3. CASE \E in \in Inputs : Plan(in)
  BY <1>2, <1>3 DEF Plan, IInv, RunInv
<1>4. CASE Reboot
  BY <1>4 DEF Reboot, CreatedAsOnHost, Active, Unit
<1>5. ASSUME NEW d \in Container, ContainerExit(d)
      PROVE  CreatedAsOnHost'
  <2> SUFFICES ASSUME NEW c \in Container, Active(c)' PROVE AsOnHost(c)'
    BY DEF CreatedAsOnHost
  <2>1. c \in Unit /\ d \in Unit
    BY DEF Unit
  <2>2. c # d
    BY <1>5, <2>1 DEF ContainerExit, Active, IInv, HostInv, HostTyped
  <2>3. Active(c) /\ ran'[c] = ran[c] /\ UNCHANGED <<loaded, files, dirs, secrets, todo>>
    BY <1>5, <2>1, <2>2 DEF ContainerExit, Active, IInv, HostInv, HostTyped, disk, podman, run
  <2> QED
    BY <2>3 DEF CreatedAsOnHost, AsOnHost, Mounted
<1>6. ASSUME NEW d \in Container, AutoRestart(d)
      PROVE  CreatedAsOnHost'
  BY <1>6, StartCreates DEF AutoRestart, run
<1>7. ASSUME NEW s \in todo, Tries(s), pc = "apply", todo' = todo \ {s}
      PROVE  CreatedAsOnHost'
  <2>1. CASE s.op = "StartSystemdService"
    <3>1. \A d \in Container : Reload(d) \in todo => Reload(d) \in todo'
      BY <1>7, <2>1 DEF Reload, Task
    <3>2. CASE CanStart(s.unit) /\ ServiceStarts(s.unit) /\ UNCHANGED <<disk, secrets, loaded>>
      BY <1>7, <2>1, <3>1, <3>2, TriedStart, StartCreates
    <3>3. ASSUME UNCHANGED <<files, dirs, secrets, loaded, ran>>, \A c \in Container : Active(c)' => Active(c)
          PROVE  CreatedAsOnHost'
      BY <3>1, <3>3 DEF CreatedAsOnHost, AsOnHost, Mounted
    <3>4. CASE UNCHANGED host
      BY <3>3, <3>4 DEF Active, host, disk, podman, systemd
    <3>5. CASE /\ UNCHANGED <<disk, podman, loaded, ran>>
               /\ \/ UNCHANGED status
                  \/ \E to \in {"inactive", "activating"} : status' = [status EXCEPT ![s.unit] = to]
      <4>1. \A c \in Container : c \in Unit
        BY DEF Unit
      <4>2. ASSUME NEW c \in Container, Active(c)'
            PROVE  Active(c)
        BY <3>5, <4>1, <4>2 DEF Active, IInv, HostInv, HostTyped
      <4> QED
        BY <3>3, <3>5, <4>2 DEF disk, podman
    <3> QED
      BY <1>7, <2>1, <3>2, <3>4, <3>5, TriedStart
  <2>2. CASE s.op = "ReloadSystemdService"
    BY <1>7, <2>2, ReloadRefreshes
  <2>3. CASE s.op \notin {"StartSystemdService", "ReloadSystemdService"}
    BY <1>1, <1>7, <2>3, CreatedStep
  <2> QED
    BY <2>1, <2>2, <2>3
<1> QED
  BY <1>1, <1>2, <1>3, <1>4, <1>5, <1>6, <1>7, StepKinds DEF run

\* At the end of a run that succeeds nothing is left to do.
LEMMA NothingLeft ==
    ASSUME ResourcesStay, IInv, Held, SInv, Served, CreatedAsOnHost, Succeeding
    PROVE  Converged(goal)
<1>1. goal \in Inputs /\ PostRenderValid(goal) /\ OnDisk(goal) /\ todo = {} /\ pc = "apply" /\ errs = {}
  BY NothingOwedOnDisk DEF SInv, Owed, Succeeding
<1>2. loaded = Generates(installed)
  BY <1>1 DEF SInv, Synced
<1>3. ASSUME NEW u \in Desired(goal)
      PROVE  u \in Unit /\ installed[u] = Rendered(goal, u) /\ loaded[u] = installed[u]
  <2>1. u \in Unit /\ goal.unit[u] # None /\ installed[u] = Rendered(goal, u)
    BY <1>1, <1>3 DEF Desired, OnDisk
  <2>2. Rendered(goal, u) # None /\ Rendered(goal, u).def # None /\ Rendered(goal, u).refs = goal.unit[u].refs
    BY <1>1, <2>1, RenderedWhole
  <2>3. ASSUME NEW r \in goal.unit[u].refs
        PROVE  installed[r] # None
    <3>1. r \in Desired(goal)
      <4>1. CASE u \in Container
        BY <1>1, <1>3, <4>1 DEF PostRenderValid, Containers
      <4>2. CASE u \in Resource
        BY <1>1, <2>1, <4>2, StayingResource
      <4> QED
        BY <2>1, <4>1, <4>2 DEF Unit
    <3>2. r \in Unit /\ goal.unit[r] # None /\ installed[r] = Rendered(goal, r)
      BY <1>1, <3>1 DEF Desired, OnDisk
    <3> QED
      BY <1>1, <3>2, RenderedWhole
  <2> QED
    BY <1>2, <2>1, <2>2, <2>3 DEF Generates
<1>4. ASSUME NEW c \in Containers(goal), Active(c)
      PROVE  UpToDate(goal, c)
  <2>1. c \in Container /\ c \in Unit /\ c \in Stored /\ c \in Desired(goal) /\ goal.unit[c] # None
    BY <1>4 DEF Containers, Desired, Stored
  <2>2. AsOnHost(c) /\ loaded[c] = Rendered(goal, c)
    BY <1>3, <1>4, <2>1 DEF CreatedAsOnHost
  <2>3. goal.unit[c] \in UnitFile
    BY <1>1, <2>1, InputsTyped DEF Input, Maybe
  <2>4. /\ loaded[c].refs = goal.unit[c].refs /\ loaded[c].secrets = goal.unit[c].secrets
        /\ loaded[c].mounts = {f \in File : goal.files[c][f] # None} \cup {d \in Dir : goal.dirs[c][d] # None}
    BY <2>1, <2>2, <2>3 DEF Rendered, UnitFile
  <2>5. files[c] = goal.files[c] /\ dirs[c] = goal.dirs[c] /\ secrets = goal.secrets
    BY <1>1, <1>4, <2>1 DEF OnDisk
  <2>6. ran[c] # None /\ ran[c] \in Snapshot
    BY <1>4, <2>1 DEF IInv, HostInv, HostTyped, ActiveWasCreated, Maybe
  <2>7. ran[c].files = goal.files[c]
    <3>1. ran[c].files \in FileMap /\ goal.files[c] \in FileMap
      BY <1>1, <2>1, <2>6, InputsTyped DEF Snapshot, Input
    <3>2. ASSUME NEW f \in File
          PROVE  ran[c].files[f] = goal.files[c][f]
      <4>1. f \in loaded[c].mounts <=> goal.files[c][f] # None
        BY <2>4, MountsDisjoint
      <4> QED
        BY <2>2, <2>5, <4>1 DEF AsOnHost, Mounted
    <3> QED
      BY <3>1, <3>2 DEF FileMap
  <2>8. ran[c].dirs = goal.dirs[c]
    <3>1. ran[c].dirs \in DirMap /\ goal.dirs[c] \in DirMap
      BY <1>1, <2>1, <2>6, InputsTyped DEF Snapshot, Input
    <3>2. ASSUME NEW d \in Dir
          PROVE  ran[c].dirs[d] = goal.dirs[c][d]
      <4>1. d \in loaded[c].mounts <=> goal.dirs[c][d] # None
        BY <2>4, MountsDisjoint
      <4> QED
        BY <1>1, <2>2, <2>5, <4>1 DEF AsOnHost, Mounted
    <3> QED
      BY <3>1, <3>2 DEF DirMap
  <2>9. ASSUME NEW r \in goal.unit[c].refs
        PROVE  /\ ran[c].resource[r].def = goal.unit[r].def
               /\ r \in Build => ran[c].resource[r].files = goal.files[r]
    <3>1. r \in Resource /\ r \in Desired(goal) /\ goal.unit[r] # None
      BY <1>1, <1>4, <2>3 DEF PostRenderValid, Desired, UnitFile
    <3>2. loaded[r] = goal.unit[r]
      BY <1>1, <1>3, <3>1, StayingResource
    <3>3. r \in Build => files[r] = goal.files[r]
      BY <1>1, <3>1 DEF OnDisk, Stored
    <3> QED
      BY <2>2, <2>4, <3>2, <3>3 DEF AsOnHost
  <2> QED
    BY <2>2, <2>4, <2>5, <2>7, <2>8, <2>9 DEF UpToDate, AsOnHost, SameButNeutral
<1>5. ASSUME NEW c \in Containers(goal)
      PROVE  InDesiredState(goal, c)
  <2>1. Steady(c)
    BY <1>1 DEF SInv, Lively
  <2>2. goal.unit[c].type = "running" => status[c] = "activating" \/ Active(c)
    BY <1>1, <2>1 DEF Steady, IsRunning, Active
  <2>3. goal.unit[c].type = "stopped" => ~IsRunning(c)
    BY <1>1, <2>1 DEF Steady
  <2> QED
    BY <1>4, <2>2, <2>3 DEF InDesiredState
<1>6. ASSUME NEW c \in Container, installed[c] = None
      PROVE  ~IsRunning(c)
  BY <1>2, <1>6 DEF Served, Generates, Unit
<1> QED
  BY <1>1, <1>3, <1>5, <1>6 DEF Converged

\* Together, the invariant of what containers run on.
CInv ==
    /\ Held /\ SInv
    /\ FromInput /\ StoppedFirst /\ Declared
    /\ FromInputs /\ Served /\ Reloads /\ LeftAlone
    /\ CreatedAsOnHost /\ MadeByService /\ OutdatedIsDown

\* An empty host runs nothing.
LEMMA EmptyHost == Init => CInv
<1> SUFFICES ASSUME Init PROVE CInv
  OBVIOUS
<1>1. Held /\ SInv
  <2>1. Held /\ Owed /\ Lively
    BY DEF Init, Held, Owed, Lively
  <2>2. \A c \in Container : installed[c] = None
    BY DEF Init, Unit
  <2>3. Generates(installed) = [u \in Unit |-> None]
    BY DEF Init, Generates
  <2>4. Closed /\ Synced
    BY <2>2, <2>3 DEF Init, Closed, Synced
  <2> QED
    BY <2>1, <2>4 DEF SInv
<1>2. FromInput /\ StoppedFirst /\ Declared
  BY NoneIsFresh, ImplicitIsMade, VolumeIsUnit DEF Init, FromInput, StoppedFirst, Declared, Active
<1>3. FromInputs /\ Served /\ Reloads /\ LeftAlone /\ CreatedAsOnHost /\ MadeByService /\ OutdatedIsDown
  BY ResourceIsUnit
     DEF Init, FromInputs, Served, Reloads, LeftAlone, CreatedAsOnHost, MadeByService,
         OutdatedIsDown, Outdated, IsRunning, Active, Unit
<1> QED
  BY <1>1, <1>2, <1>3 DEF CInv

\* Every step keeps it.
LEMMA CInvStays ==
    ASSUME NoFailures, NoCrashes, KeepsItsDirs, LocksAreKept, OneshotsStay, ResourcesStay,
           NoReboots \/ ResourcesFixed, IInv, CInv, [Next]_vars
    PROVE  CInv'
<1>1. Held /\ Owed /\ Closed /\ Synced /\ Lively
  BY DEF CInv, SInv
<1>2. (Held /\ SInv)'
  BY <1>1, HeldStays, OwedStays, ClosedStays, SyncedStays, LivelyStays DEF CInv, SInv
<1>3. (FromInput /\ StoppedFirst /\ Declared)'
  BY VolumesStay, FromInputStays, StoppedFirstStays, DeclaredStays DEF CInv
<1>4. (FromInputs /\ Served /\ Reloads)'
  BY <1>1, FromInputsKept, ServedStays, ReloadsStay DEF CInv
<1>5. (LeftAlone /\ CreatedAsOnHost)'
  BY <1>1, LeftAloneStays, CreatedStays DEF CInv
<1>6. (MadeByService /\ OutdatedIsDown)'
  BY <1>1, MadeStays, OutdatedStays DEF CInv
<1> QED
  BY <1>2, <1>3, <1>4, <1>5, <1>6 DEF CInv

\* A run that reports success has brought the host to its input: the unit files, the
\* files, the secrets, the services, and every container that runs, which was created from
\* the present definition of all it uses.  No operation fails of itself, no run dies, and
\* the inputs change the volumes, networks and builds, but neither add nor drop one, and
\* do not change them either if the host may reboot: a boot between the new unit file of
\* a network and the deletion of the network keeps the old one.
THEOREM OkRunBringsAbout ==
    ASSUME NoFailures, NoCrashes, KeepsItsDirs, LocksAreKept, OneshotsStay, ResourcesStay,
           NoReboots \/ ResourcesFixed
    PROVE  Spec => []OkRunConverges
<1>1. IInv /\ CInv => OkRunConverges
  BY NothingLeft DEF OkRunConverges, CInv, SInv
<1> QED
  BY <1>1, EmptyHost, CInvStays, Invariance, PTL DEF Spec

(***************************************************************************)
(* A container that is what its input describes keeps running: an          *)
(* operation of the plan that would take it down is there because the host *)
(* differs from the input in something the container was created with.     *)
(***************************************************************************)
\* Redefining a volume, a network or a build changes its body.
DefTellsResources ==
    \A r \in Resource : \A in, other \in Inputs :
        in.unit[r] # None /\ other.unit[r] # None /\ in.unit[r].def = other.unit[r].def
            => SameButNeutral(in.unit[r], other.unit[r])

\* Between runs, and while a run keeps a container without a spec, the service of an
\* installed container mounts every config file it has.
FilesShown ==
    /\ \A c \in Container :
          (/\ installed[c] # None
           /\ pc = "apply" => /\ goal.unit[c] = None
                              /\ Task("DeleteFsQuadletUnitFile", c, None) \notin todo)
          => \A f \in File : files[c][f] # None => f \in installed[c].mounts
    /\ \A s \in todo : s.op = "WriteFsContainerConfigFile" => goal.unit[s.unit] # None

\* The host differs from the input in something c runs on.
Outmoded(c) ==
    \/ ~SameButNeutral(Rendered(goal, c), loaded[c])
    \/ \E f \in File : goal.files[c][f] \notin {None, files[c][f]}
    \/ \E d \in Dir : goal.dirs[c][d] \notin {None, dirs[c][d]} /\ ~goal.unit[c].reloadable
    \/ \E x \in goal.unit[c].secrets : goal.secrets[x] # secrets[x]
    \/ \E r \in goal.unit[c].refs :
          loaded[r].def # goal.unit[r].def \/ (r \in Build /\ files[r] # goal.files[r])

\* Nothing is to be stopped without that.
StopsHaveCause ==
    pc = "apply" => \A s \in todo, c \in Container :
        (/\ s.op = "StopSystemdService" /\ c \in StoppedWith(s.unit)
         /\ IsRunning(c) /\ Wanted(c)) => Outmoded(c)

\* A run leaves an installed container with the files its service mounts.
LEMMA FilesShownStays ==
    ASSUME NoFailures, NoCrashes, NoReboots, IInv, Owed, FilesShown, [Next]_vars
    PROVE  FilesShown'
<1>1. ~Reboot /\ ~Crash /\ pc # "abort"
  BY DEF Reboot, Crash, Fault, NoReboots, NoCrashes, Owed
<1>2. ASSUME NEW in \in Inputs, Plan(in)
      PROVE  FilesShown'
  <2>1. /\ todo' = BuildPlan(in) /\ goal' = in /\ pc = "idle" /\ pc' = "apply"
        /\ UNCHANGED <<installed, files>>
    BY <1>2, PlanIs
  <2>2. ASSUME NEW s \in todo', s.op = "WriteFsContainerConfigFile"
        PROVE  goal'.unit[s.unit] # None
    BY <2>1, <2>2 DEF BuildPlan, FileOps, UnitOps, ServiceOps, Ops, ItemOps, Containers, Desired
  <2> QED
    BY <2>1, <2>2 DEF FilesShown
<1>3. ASSUME NEW s \in todo, Tries(s), pc = "apply", pc' = "apply", todo' = todo \ {s},
             UNCHANGED <<goal, base>>
      PROVE  FilesShown'
  <2>1. UnitsAfter(s) /\ FilesAfter(s) /\ PermitGiven(s)
    BY <1>3, TriedUnits, TriedFiles DEF IInv, RunInv
  <2>2. ASSUME NEW c \in Container, installed'[c] # None, goal.unit[c] = None,
               Task("DeleteFsQuadletUnitFile", c, None) \notin todo',
               NEW f \in File, files'[c][f] # None
        PROVE  f \in installed'[c].mounts
    <3>1. c \in Unit /\ c \in Stored
      BY DEF Unit, Stored
    <3>2. ~(s.op = "DeleteFsQuadletUnitFile" /\ s.unit = c)
      BY <2>1, <2>2, <3>1 DEF UnitsAfter
    <3>3. s # Task("DeleteFsQuadletUnitFile", c, None)
      BY <3>2 DEF Task
    <3>4. installed'[c] = installed[c]
      BY <2>1, <2>2, <3>1, <3>2 DEF UnitsAfter, PermitGiven
    <3>5. files[c][f] # None
      <4>1. ~(s.op = "WriteFsContainerConfigFile" /\ s.unit = c)
        BY <2>2 DEF FilesShown
      <4>2. s.op = "WriteFsBuildContextFile" => s.unit # c
        BY <3>1, UnitTypesDisjoint DEF IInv, RunInv, RunTyped, Step, Resource
      <4> QED
        BY <2>1, <2>2, <3>1, <4>1, <4>2 DEF FilesAfter
    <3> QED
      BY <1>3, <2>2, <3>3, <3>4, <3>5 DEF FilesShown
  <2> QED
    BY <1>3, <2>2 DEF FilesShown
<1>4. CASE UNCHANGED host /\ (UNCHANGED run \/ (todo = {} /\ todo' = {} /\ pc' = "idle"))
  <2>1. UNCHANGED <<installed, files>>
    BY <1>4 DEF host, disk
  <2>2. CASE UNCHANGED run
    BY <2>1, <2>2 DEF FilesShown, run
  <2>3. ASSUME todo = {}, todo' = {}, pc' = "idle"
        PROVE  FilesShown'
    <3>1. ASSUME NEW c \in Container, installed[c] # None, NEW f \in File, files[c][f] # None
          PROVE  f \in installed[c].mounts
      <4>1. CASE pc = "apply" /\ goal.unit[c] # None
        <5>1. c \in Unit /\ c \in Stored
          BY DEF Unit, Stored
        <5>2. installed[c] = Rendered(goal, c) /\ files[c][f] = goal.files[c][f] /\ goal \in Inputs
          BY <2>3, <4>1, <5>1 DEF Owed, UnitsOwed, FilesOwed
        <5>3. goal.unit[c] \in UnitFile
          BY <4>1, <5>1, <5>2, InputsTyped DEF Input, Maybe
        <5> QED
          BY <3>1, <5>2, <5>3 DEF Rendered, UnitFile
      <4>2. CASE ~(pc = "apply" /\ goal.unit[c] # None)
        BY <2>3, <3>1, <4>2 DEF FilesShown
      <4> QED
        BY <4>1, <4>2
    <3> QED
      BY <2>1, <2>3, <3>1 DEF FilesShown
  <2> QED
    BY <1>4, <2>2, <2>3
<1>5. CASE \E d \in Container : ContainerExit(d) \/ AutoRestart(d)
  BY <1>5, HostStep DEF FilesShown, disk, run
<1> QED
  BY <1>1, <1>2, <1>3, <1>4, <1>5, StepKinds

\* A planned restart has its cause in the host.
LEMMA RestartIsCaused ==
    ASSUME NoFailures, ResourcesStay, DefTellsResources, IInv, Served, LeftAlone, FilesShown,
           NEW in \in Inputs, Plan(in), NEW c \in Containers(in), IsRunning(c),
           NeedsRestart(in, c) \/ loaded[c].refs \cap Recreated(in) # {}
    PROVE  Outmoded(c)'
<1>1. /\ goal' = in /\ pc = "idle" /\ todo = {}
      /\ UNCHANGED <<installed, files, dirs, secrets, loaded>>
  BY PlanIs DEF IInv, RunInv
<1>2. c \in Container /\ c \in Unit /\ c \in Stored /\ c \notin Resource /\ in.unit[c] # None
  BY UnitTypesDisjoint DEF Containers, Desired, Unit, Stored
<1>3. Undisturbed(c)
  BY <1>1, <1>2 DEF LeftAlone
<1>4. /\ installed[c] # None /\ loaded[c] # None /\ SameButNeutral(installed[c], loaded[c])
      /\ installed[c] \in UnitFile /\ loaded[c] \in UnitFile
  BY <1>2, <1>3 DEF Undisturbed, IInv, HostInv, HostTyped, Maybe
<1> SUFFICES ASSUME SameButNeutral(Rendered(in, c), loaded[c]) PROVE Outmoded(c)'
  BY <1>1 DEF Outmoded, Rendered
<1>5. in.unit[c] \in UnitFile /\ Rendered(in, c) \in UnitFile
  BY <1>2, InputsTyped, RenderedWhole DEF Input, Maybe
<1>6. /\ loaded[c].refs = in.unit[c].refs /\ in.unit[c].refs \subseteq Resource
      /\ loaded[c].mounts = {f \in File : in.files[c][f] # None} \cup {d \in Dir : in.dirs[c][d] # None}
      /\ installed[c].mounts = loaded[c].mounts
  <2>1. /\ Rendered(in, c).refs = in.unit[c].refs
        /\ Rendered(in, c).mounts = {f \in File : in.files[c][f] # None} \cup {d \in Dir : in.dirs[c][d] # None}
    BY <1>2, <1>5 DEF Rendered, UnitFile
  <2>2. loaded[c].refs = Rendered(in, c).refs /\ loaded[c].mounts = Rendered(in, c).mounts
    BY <1>4, <1>5, NeutralKeeps
  <2>3. installed[c].mounts = loaded[c].mounts
    BY <1>4, NeutralKeeps
  <2>4. in.unit[c].refs \subseteq Resource
    BY <1>5 DEF UnitFile
  <2> QED
    BY <2>1, <2>2, <2>3, <2>4
<1>7. CASE FilesDiffer(in, c)
  <2>1. StaleFiles(in, c) = {}
    <3> SUFFICES ASSUME NEW f \in StaleFiles(in, c) PROVE FALSE
      OBVIOUS
    <3>1. f \in File /\ files[c][f] # None /\ in.files[c][f] = None
      BY DEF StaleFiles
    <3>2. f \in installed[c].mounts
      BY <1>1, <1>2, <1>4, <3>1 DEF FilesShown
    <3> QED
      BY <1>6, <3>1, <3>2, MountsDisjoint
  <2> QED
    BY <1>1, <1>7, <2>1 DEF FilesDiffer, ChangedFiles, Outmoded
<1>8. CASE in.unit[c].secrets \cap ChangedSecrets(in) # {}
  BY <1>1, <1>8 DEF ChangedSecrets, Outmoded
<1>9. CASE ChangedDirs(in, c) # {} /\ ~in.unit[c].reloadable
  BY <1>1, <1>9 DEF ChangedDirs, Outmoded
<1>10. ASSUME NEW r \in in.unit[c].refs \cap Recreated(in)
       PROVE  Outmoded(c)'
  <2>1. r \in Resource /\ r \in Unit /\ in.unit[r] # None /\ Rendered(in, r) = in.unit[r]
    BY <1>6, <1>10, ResourceIsUnit, StayingResource DEF Recreated, Desired
  <2>2. installed[r] # None /\ loaded[r] # None /\ SameButNeutral(installed[r], loaded[r])
    BY <1>3, <1>6, <1>10 DEF Undisturbed
  <2>3. CASE MeaningfullyChanged(in, r)
    <3>1. PICK old \in Inputs : old.unit[r] # None /\ loaded[r] = Rendered(old, r)
      BY <2>1, <2>2 DEF Served
    <3>2. loaded[r] = old.unit[r]
      BY <2>1, <3>1, StayingResource
    <3>3. ~SameButNeutral(in.unit[r], old.unit[r])
      BY <2>1, <2>2, <2>3, <3>2 DEF MeaningfullyChanged, SameButNeutral
    <3>4. in.unit[r].def # old.unit[r].def
      BY <2>1, <3>1, <3>3 DEF DefTellsResources
    <3> QED
      BY <1>1, <1>10, <3>2, <3>4 DEF Outmoded
  <2>4. CASE r \in Build /\ FilesDiffer(in, r)
    <3>1. \E f \in File : files[r][f] # in.files[r][f]
      BY <2>4 DEF FilesDiffer, ChangedFiles, StaleFiles
    <3> QED
      BY <1>1, <1>10, <2>4, <3>1 DEF Outmoded
  <2> QED
    BY <1>10, <2>3, <2>4 DEF Recreated
<1>11. ~MeaningfullyChanged(in, c)
  BY <1>4 DEF MeaningfullyChanged, SameButNeutral
<1> QED
  BY <1>4, <1>6, <1>7, <1>8, <1>9, <1>10, <1>11 DEF NeedsRestart

\* What is stopped differs from the input until its stop.
LEMMA StopsStayCaused ==
    ASSUME NoFailures, NoCrashes, NoReboots, ResourcesStay, DefTellsResources, IInv, Owed, Served,
           LeftAlone, FilesShown, StopsHaveCause, [Next]_vars
    PROVE  StopsHaveCause'
<1> SUFFICES ASSUME pc' = "apply", NEW s \in todo', NEW c \in Container, s.op = "StopSystemdService",
                    c \in StoppedWith(s.unit)', IsRunning(c)', Wanted(c)'
             PROVE  Outmoded(c)'
  BY DEF StopsHaveCause
<1>1. c \in Unit /\ c \notin Resource /\ pc # "abort"
  BY UnitTypesDisjoint DEF Unit, Owed
<1>2. ASSUME NEW in \in Inputs, Plan(in)
      PROVE  Outmoded(c)'
  <2>1. /\ todo' = BuildPlan(in) /\ goal' = in /\ UNCHANGED <<loaded, status>>
        /\ todo = {}
    BY <1>2, PlanIs DEF IInv, RunInv
  <2>2. c \in Containers(in) /\ IsRunning(c) /\ in.unit[c].type = "running"
    BY <1>1, <2>1 DEF Wanted, Containers, Desired, IsRunning
  <2>3. s.unit \in StopSystemdServices(in)
    BY <2>1 DEF BuildPlan, FileOps, UnitOps, ServiceOps, Ops, ItemOps
  <2>4. CASE s.unit = c
    <3>1. c \notin Recreated(in) /\ c \notin Pruned(in)
      BY <1>1, <2>2 DEF Recreated, Pruned, Stale, Containers, Desired
    <3>2. PlanLifecycle(in, c) \in {"restart", "stop"}
      BY <2>3, <2>4, <3>1 DEF StopSystemdServices, WithLifecycle
    <3>3. NeedsRestart(in, c)
      BY <2>2, <3>2 DEF PlanLifecycle
    <3> QED
      BY <1>2, <2>2, <3>3, RestartIsCaused
  <2>5. CASE s.unit # c
    <3>1. s.unit \in loaded[c].refs /\ loaded[c] # None
      BY <2>1, <2>5 DEF StoppedWith
    <3>2. s.unit \in Resource
      BY <1>1, <3>1 DEF IInv, HostInv, HostTyped, Maybe, UnitFile
    <3>3. s.unit \in Recreated(in)
      BY <2>3, <3>2, UnitTypesDisjoint DEF StopSystemdServices, WithLifecycle, Containers
    <3> QED
      BY <1>2, <2>2, <3>1, <3>3, RestartIsCaused
  <2> QED
    BY <2>4, <2>5
<1>3. ASSUME s \in todo, pc = "apply", IsRunning(c), UNCHANGED <<goal, files, dirs, secrets, loaded>>,
             c \in StoppedWith(s.unit)
      PROVE  Outmoded(c)'
  <2>1. Outmoded(c)
    BY <1>3 DEF StopsHaveCause, Wanted
  <2> QED
    BY <1>3, <2>1 DEF Outmoded, Rendered
<1>4. IsRunning(c) /\ loaded' = loaded => c \in StoppedWith(s.unit)
  BY DEF StoppedWith
<1>5. ASSUME NEW t \in todo, Tries(t), todo' = todo \ {t}, UNCHANGED goal
      PROVE  Outmoded(c)'
  <2>1. t.op \in {"PullPodmanImage", "StopSystemdService"}
    <3>1. t \in Step /\ ~(OpRank["StopSystemdService"] < OpRank[t.op])
      BY <1>5, NothingBefore DEF IInv, RunInv, RunTyped
    <3> QED
      BY <3>1 DEF Step, OpRank, Order
  <2>2. UNCHANGED <<files, dirs, secrets, loaded>>
    BY <1>5, <2>1, TriedAs DEF PullPodmanImage, StopSystemdService, ExecUnit, Fails, host, disk, podman, systemd
  <2>3. IsRunning(c)
    BY <1>1, <1>5, <2>1, TriedServices DEF IsRunning
  <2>4. pc = "apply"
    BY <1>5, <2>1, TriedAs, NothingFails DEF PullPodmanImage, StopSystemdService, Due, Owed
  <2> QED
    BY <1>3, <1>4, <1>5, <2>2, <2>3, <2>4
<1>6. ASSUME NEW d \in Container, ContainerExit(d) \/ AutoRestart(d)
      PROVE  Outmoded(c)'
  BY <1>3, <1>4, <1>6, HostStep DEF disk, run
<1>7. CASE UNCHANGED host /\ (UNCHANGED run \/ (todo = {} /\ todo' = {} /\ pc' = "idle"))
  BY <1>3, <1>4, <1>7 DEF host, disk, podman, systemd, run, IsRunning
<1>8. ~Reboot
  BY DEF Reboot, Fault, NoReboots
<1> QED
  BY <1>1, <1>2, <1>5, <1>6, <1>7, <1>8, StepKinds

\* What was created as its input says is not outmoded.
LEMMA UpToDateIsNotOutmoded ==
    ASSUME IInv, Owed, Served, Reloads, CreatedAsOnHost, pc = "apply",
           NEW c \in Container, Wanted(c), Active(c), UpToDate(goal, c)
    PROVE  ~Outmoded(c)
<1>1. /\ c \in Unit /\ goal.unit[c] # None /\ goal \in Inputs /\ goal.unit[c] \in UnitFile
      /\ loaded[c] # None /\ loaded[c] \in UnitFile /\ Rendered(goal, c) \in UnitFile
  <2>1. c \in Unit /\ goal \in Inputs /\ goal.unit[c] # None
    BY DEF Unit, Wanted, Owed
  <2>2. loaded[c] # None /\ loaded[c] \in UnitFile
    BY <2>1 DEF Served, IsRunning, Active, IInv, HostInv, HostTyped, Maybe
  <2> QED
    BY <2>1, <2>2, InputsTyped, RenderedWhole DEF Input, Maybe
<1>2. AsOnHost(c)
  BY DEF CreatedAsOnHost
<1>3. SameButNeutral(Rendered(goal, c), loaded[c])
  BY <1>2 DEF AsOnHost, UpToDate, SameButNeutral
<1>4. /\ loaded[c].refs = goal.unit[c].refs /\ loaded[c].secrets = goal.unit[c].secrets
      /\ loaded[c].mounts = {f \in File : goal.files[c][f] # None} \cup {d \in Dir : goal.dirs[c][d] # None}
  <2>1. /\ Rendered(goal, c).refs = goal.unit[c].refs /\ Rendered(goal, c).secrets = goal.unit[c].secrets
        /\ Rendered(goal, c).mounts = {f \in File : goal.files[c][f] # None} \cup {d \in Dir : goal.dirs[c][d] # None}
    BY <1>1 DEF Rendered, UnitFile
  <2> QED
    BY <1>1, <1>3, <2>1, NeutralKeeps
<1>5. \A f \in File : goal.files[c][f] \in {None, files[c][f]}
  BY <1>2, <1>4 DEF AsOnHost, UpToDate, Mounted
<1>6. ASSUME NEW d \in Dir, ~goal.unit[c].reloadable
      PROVE  goal.dirs[c][d] \in {None, dirs[c][d]}
  <2>1. Reload(c) \notin todo
    BY <1>6 DEF Reloads, Reload, Task
  <2> QED
    BY <1>2, <1>4, <2>1 DEF AsOnHost, UpToDate, Mounted
<1>7. \A x \in goal.unit[c].secrets : goal.secrets[x] = secrets[x]
  BY <1>2, <1>4 DEF AsOnHost, UpToDate
<1>8. \A r \in goal.unit[c].refs :
         loaded[r].def = goal.unit[r].def /\ (r \in Build => files[r] = goal.files[r])
  BY <1>2, <1>4 DEF AsOnHost, UpToDate
<1> QED
  BY <1>3, <1>5, <1>6, <1>7, <1>8 DEF Outmoded


\* What takes down a container in the middle of a run without a fault is its stop.
LEMMA StoppedByRun ==
    ASSUME NoFailures, NoCrashes, NoReboots, IInv, pc = "apply", [Next]_vars,
           NEW c \in Container, Active(c), ~Active(c)', faults' = faults
    PROVE  \E s \in todo : s.op = "StopSystemdService" /\ c \in StoppedWith(s.unit)
<1>1. c \in Unit /\ c \notin Resource
  BY UnitTypesDisjoint DEF Unit
<1>2. ~UNCHANGED status
  BY DEF Active
<1>3. ASSUME NEW d \in Container, CanStart(d), ServiceStarts(d)
      PROVE  FALSE
  BY <1>1, <1>3 DEF ServiceStarts, Active
<1>4. ASSUME NEW s \in todo, Tries(s)
      PROVE  s.op = "StopSystemdService" /\ c \in StoppedWith(s.unit)
  <2>1. CASE s.op = "StopSystemdService"
    <3>1. ServiceStops(StoppedWith(s.unit))
      BY <1>2, <1>4, <2>1, TriedRan
    <3> QED
      BY <1>1, <2>1, <3>1 DEF ServiceStops, Active
  <2>2. CASE s.op = "StartSystemdService"
    <3>1. ~Active(s.unit) /\ \E to : status' = [status EXCEPT ![s.unit] = to]
      BY <1>2, <1>3, <1>4, <2>2, TriedStart DEF host, systemd
    <3> QED
      BY <1>1, <3>1 DEF Active, IInv, HostInv, HostTyped
  <2> QED
    BY <1>2, <1>4, <2>1, <2>2, TriedRan
<1>5. ASSUME NEW d \in Container, ContainerExit(d)
      PROVE  FALSE
  BY <1>5 DEF ContainerExit, Fault, IInv, RunInv, RunTyped
<1>6. ASSUME NEW d \in Container, AutoRestart(d)
      PROVE  FALSE
  BY <1>3, <1>6 DEF AutoRestart
<1>7. ~Reboot
  BY DEF Reboot, Fault, NoReboots
<1>8. CASE (\E in \in Inputs : Plan(in)) \/ UNCHANGED host
  BY <1>2, <1>8 DEF Plan, host, systemd
<1> QED
  BY <1>4, <1>5, <1>6, <1>7, <1>8, StepKinds

\* A run never takes down a container that already is what its input describes: whatever
\* the plan stops was created from something that the input changes.  No operation fails
\* of itself, no run dies and the host does not reboot; containers may exit at any time.
\* The inputs redefine volumes, networks and builds, but neither add nor drop one.
THEOREM UpToDateKeepsRunning ==
    ASSUME NoFailures, NoCrashes, NoReboots, KeepsItsDirs, LocksAreKept, OneshotsStay,
           ResourcesStay, DefTellsResources
    PROVE  Spec => UpToDateIsLeftRunning
<1> DEFINE KInv == CInv /\ FilesShown /\ StopsHaveCause
<1>1. Init => KInv
  BY EmptyHost DEF Init, FilesShown, StopsHaveCause, Unit
<1>2. IInv /\ KInv /\ [Next]_vars => KInv'
  BY CInvStays, FilesShownStays, StopsStayCaused DEF CInv, SInv
<1>3. IInv /\ KInv /\ [Next]_vars =>
        [\A c \in Container :
          (pc = "apply" /\ pc' = "apply" /\ Wanted(c) /\ Active(c) /\ UpToDate(goal, c)
             /\ faults' = faults)
          => Active(c)']_vars
  <2> SUFFICES ASSUME IInv, KInv, [Next]_vars, NEW c \in Container, pc = "apply", Wanted(c),
                      Active(c), UpToDate(goal, c), faults' = faults, ~Active(c)'
               PROVE  FALSE
    OBVIOUS
  <2>1. ~Outmoded(c)
    BY UpToDateIsNotOutmoded DEF CInv, SInv
  <2>2. PICK s \in todo : s.op = "StopSystemdService" /\ c \in StoppedWith(s.unit)
    BY StoppedByRun
  <2> QED
    BY <2>1, <2>2 DEF StopsHaveCause, IsRunning, Active
<1> QED
  BY <1>1, <1>2, <1>3, Invariance, PTL DEF Spec, UpToDateIsLeftRunning

(***************************************************************************)
(* Where nothing happens to a run, it succeeds: every operation can be     *)
(* executed at the place the order gives it.                               *)
(***************************************************************************)
NoExits == "exit" \notin FaultKinds

\* Every network of an input is used by a container that is to run; a network nobody
\* uses is never made, and cannot be deleted when it is redefined.
NetworksUsed ==
    \A in \in Inputs, n \in Network : in.unit[n] # None =>
        \E c \in Containers(in) : in.unit[c].type = "running" /\ n \in in.unit[c].refs

\* A build has a Containerfile (BuildContainerfilePresent, internal/validate/prerender.go).
BuildsHaveFiles == \A in \in Inputs : \A b \in Builds(in) : \E f \in File : in.files[b][f] # None

\* What is to be stopped is known, what is to be reloaded runs, and what is to be deleted
\* is there and makes way for what the input wants.
NoneRestarts == \A c \in Container : status[c] # "activating"
StopsKnown == \A s \in todo : s.op = "StopSystemdService" => loaded[s.unit] # None
ReloadsWanted ==
    \A c \in Container : Reload(c) \in todo =>
        /\ c \in Containers(goal) /\ goal.unit[c].type = "running"
        /\ Task("StartSystemdService", c, None) \notin todo
NetworksDeleted ==
    \A s \in todo : /\ s.op # "DeletePodmanImage"
                    /\ s.op = "DeletePodmanNetwork" => Outdated(s.unit) /\ resource[s.unit] # None
UsedIsThere ==
    /\ \A c \in Container : ran[c] # None => \A r \in ran[c].spec.refs : resource[r] # None
    /\ \A r \in Resource : Active(r) => resource[r] # None
NetworksMade == pc = "idle" => \A n \in Network : installed[n] # None => resource[n] # None
Possible ==
    /\ errs = {} /\ result # "error"
    /\ NoneRestarts /\ StopsKnown /\ ReloadsWanted /\ NetworksDeleted /\ UsedIsThere /\ NetworksMade

\* The operations that may not be possible.
LEMMA TriedErrs ==
    ASSUME NoFailures, IInv, NEW s \in todo, Tries(s)
    PROVE  /\ result' = result
           /\ \/ errs' = errs
              \/ s.op = "StopSystemdService" /\ loaded[s.unit] = None
              \/ s.op = "DeletePodmanNetwork" /\ CannotRemove(s.unit)
              \/ /\ s.op = "ReloadSystemdService"
                 /\ ~Active(s.unit) \/ loaded[s.unit] = None \/ ~loaded[s.unit].reloadable
              \/ s.op = "StartSystemdService" /\ ~Active(s.unit) /\ ~CanStart(s.unit)
<1>1. CASE s.op \in {"StopSystemdService", "DeletePodmanNetwork"}
  BY <1>1, TriedAs, NothingFails
     DEF StopSystemdService, DeletePodmanNetwork, Remove, Done, Exec, ExecUnit, Fails, NotDone
<1>2. CASE s.op = "ReloadSystemdService"
  <2>1. \/ Done(s)
        \/ ExecUnit(s, ~Active(s.unit) \/ loaded[s.unit] = None \/ ~loaded[s.unit].reloadable)
    BY <1>2, TriedAs, Zenon DEF ReloadSystemdService
  <2> QED
    BY <1>2, <2>1, NothingFails DEF Done, ExecUnit, Fails, NotDone
<1>3. CASE s.op = "StartSystemdService"
  <2>1. result' = result /\ (errs' = errs \/ ~Active(s.unit))
    BY <1>3, TriedAs DEF StartSystemdService, Done
  <2>2. errs' = errs \/ ~CanStart(s.unit)
    BY <1>3, TriedAs, NothingFails DEF StartSystemdService, Done
  <2> QED
    BY <1>3, <2>1, <2>2
<1>4. CASE s.op \notin {"StopSystemdService", "DeletePodmanNetwork", "ReloadSystemdService",
                        "StartSystemdService"}
  <2>1. ASSUME NEW cannot, Exec(s, cannot)
        PROVE  UNCHANGED <<errs, result>>
    BY <2>1 DEF Exec, Fails, NotDone
  <2>2. UNCHANGED <<errs, result>>
    BY <1>4, <2>1, NothingFails
       DEF Tries, PullPodmanImage, StopSystemdService, WriteFsContainerConfigFile,
         DeleteFsContainerConfigFile, DeleteFsContainerConfig, WriteFsContainerConfigDir,
         DeleteFsContainerConfigDir, WriteFsBuildContextFile, DeleteFsBuildContextFile,
         DeleteFsBuildContext, DeletePodmanSecret, UpsertPodmanSecret, WriteFsQuadletUnitFile,
         DeleteFsQuadletUnitFile, DeletePodmanVolume, DeletePodmanNetwork, DeletePodmanImage,
         DaemonReload, ReloadSystemdService, StartSystemdService, Due, Remove, Done, FilesWritten
  <2> QED
    BY <2>2
<1> QED
  BY <1>1, <1>2, <1>3, <1>4

\* A container can start when its start comes.
LEMMA StartIsPossible ==
    ASSUME NoFailures, ResourcesStay, BuildsHaveFiles, IInv, CInv, UsedIsThere, pc = "apply",
           NEW s \in todo, Tries(s), s.op = "StartSystemdService"
    PROVE  CanStart(s.unit)
<1> DEFINE c == s.unit
<1>1. Owed /\ Closed /\ Synced
  BY DEF CInv, SInv
<1>2. /\ c \in Container /\ c \in Unit /\ c \in Stored /\ goal \in Inputs /\ goal.unit[c] # None
      /\ c \in Containers(goal)
  <2>1. c \in Container /\ c \in Unit /\ c \in Stored
    BY DEF IInv, RunInv, RunTyped, Step, Unit, Stored
  <2> QED
    BY <1>1, <2>1 DEF Owed, Licensed, Containers, Desired
<1>3. loaded[c] = Rendered(goal, c)
  BY <1>1, <1>2, LoadedAsWanted
<1>4. \A t \in todo : t.op \in {"ReloadSystemdService", "StartSystemdService"}
  <2> SUFFICES ASSUME NEW t \in todo PROVE t.op \in {"ReloadSystemdService", "StartSystemdService"}
    OBVIOUS
  <2>1. t \in Step /\ ~(OpRank[t.op] < OpRank["StartSystemdService"])
    BY NothingBefore DEF IInv, RunInv, RunTyped
  <2> QED
    BY <2>1 DEF Step, OpRank, Order
<1>5. goal.unit[c] \in UnitFile /\ Rendered(goal, c) # None
  BY <1>2, InputsTyped, RenderedWhole DEF Input, Maybe
<1>6. /\ loaded[c].refs = goal.unit[c].refs /\ loaded[c].secrets = goal.unit[c].secrets
      /\ loaded[c].mounts = {f \in File : goal.files[c][f] # None} \cup {d \in Dir : goal.dirs[c][d] # None}
      /\ loaded[c].refs \subseteq Resource
  BY <1>2, <1>3, <1>5 DEF Rendered, UnitFile
<1>7. ASSUME NEW r \in loaded[c].refs
      PROVE  CanRun(r) /\ ResourcesAfterStart(c)[r] # None
  <2>1. r \in Resource /\ r \in Unit /\ r \in Desired(goal) /\ goal.unit[r] # None
    BY <1>1, <1>2, <1>6, ResourceIsUnit DEF Owed, PostRenderValid, Desired
  <2>2. installed[r] = goal.unit[r] /\ goal.unit[r].refs = {} /\ goal.unit[r].def # None
    BY <1>1, <1>2, <1>4, <2>1, StayingResource DEF Owed, UnitsOwed, Task
  <2>3. loaded[r] # None
    <3>1. loaded = Generates(installed)
      BY <1>1, <1>4 DEF Synced, Task
    <3> QED
      BY <2>1, <2>2, <3>1 DEF Generates
  <2>4. r \in Build => \E f \in File : files[r][f] # None
    <3> SUFFICES ASSUME r \in Build PROVE \E f \in File : files[r][f] # None
      OBVIOUS
    <3>1. PICK f \in File : goal.files[r][f] # None
      BY <1>2, <2>1 DEF BuildsHaveFiles, Builds
    <3>2. r \in Stored
      BY DEF Stored
    <3>3. files[r][f] = goal.files[r][f]
      BY <1>1, <1>4, <2>1, <3>2 DEF Owed, FilesOwed, Task
    <3> QED
      BY <3>1, <3>3
  <2>5. CanRun(r)
    BY <2>3, <2>4 DEF CanRun
  <2>6. ResourcesAfterStart(c)[r] \in {Fresh(r), Implicit, resource[r]}
    BY <1>7, <2>1 DEF ResourcesAfterStart
  <2>7. Fresh(r) # None /\ Implicit # None
    <3>1. loaded[r].def \in Maybe(Value)
      BY <2>1, <2>3 DEF IInv, HostInv, HostTyped, Maybe, UnitFile
    <3>2. NoFiles \in FileMap /\ (r \in Build => files[r] \in FileMap)
      BY DEF NoFiles, FileMap, Maybe, IInv, HostInv, HostTyped, Stored
    <3>3. Fresh(r) \in Made
      BY <3>1, <3>2 DEF Fresh, Made
    <3> QED
      BY <3>3, ImplicitIsMade, NoneIsFresh
  <2>8. ResourcesAfterStart(c)[r] = resource[r] => resource[r] # None
    <3>1. CASE Active(r)
      BY <2>1, <3>1 DEF UsedIsThere
    <3>2. CASE ~Active(r) /\ resource[r] = None
      BY <1>7, <2>1, <2>7, <3>2 DEF ResourcesAfterStart
    <3> QED
      BY <3>1, <3>2
  <2> QED
    BY <2>5, <2>6, <2>7, <2>8
<1>8. ASSUME NEW f \in loaded[c].mounts \cap File
      PROVE  files[c][f] # None
  <2>1. goal.files[c][f] # None
    BY <1>6, <1>8, MountsDisjoint
  <2> QED
    BY <1>1, <1>2, <1>4, <2>1 DEF Owed, FilesOwed, Task
<1>9. ASSUME NEW d \in loaded[c].mounts \cap Dir
      PROVE  dirs[c][d] # None
  <2>1. goal.dirs[c][d] # None
    BY <1>6, <1>9, MountsDisjoint
  <2> QED
    BY <1>1, <1>2, <1>4, <2>1 DEF Owed, DirsOwed, Task
<1>10. ASSUME NEW x \in loaded[c].secrets
       PROVE  secrets[x] # None
  <2>1. x \in Secret /\ goal.secrets[x] # None
    BY <1>1, <1>2, <1>5, <1>6 DEF Owed, PostRenderValid, UnitFile
  <2> QED
    BY <1>1, <1>4, <2>1 DEF Owed, SecretsOwed, Task
<1> QED
  BY <1>3, <1>5, <1>7, <1>8, <1>9, <1>10 DEF CanStart

\* A container can be reloaded when its reload comes.
LEMMA ReloadIsPossible ==
    ASSUME NoFailures, IInv, CInv, NoneRestarts, ReloadsWanted, errs = {}, pc = "apply",
           NEW s \in todo, Tries(s), s.op = "ReloadSystemdService"
    PROVE  Active(s.unit) /\ loaded[s.unit] # None /\ loaded[s.unit].reloadable
<1> DEFINE c == s.unit
<1>1. Owed /\ Lively /\ Served /\ Reloads /\ LeftAlone
  BY DEF CInv, SInv
<1>2. c \in Container /\ c \in Unit /\ s = Reload(c)
  BY DEF IInv, RunInv, RunTyped, Step, Unit, Reload, Task
<1>3. c \in Containers(goal) /\ goal.unit[c].type = "running" /\ Task("StartSystemdService", c, None) \notin todo
  BY <1>2 DEF ReloadsWanted
<1>4. IsRunning(c)
  BY <1>1, <1>3 DEF Lively, Steady
<1>5. Active(c) /\ loaded[c] # None
  BY <1>1, <1>2, <1>4 DEF Served, NoneRestarts, IsRunning, Active
<1>6. Stop(c) \notin todo /\ Task("WriteFsQuadletUnitFile", c, None) \notin todo
  BY NothingBefore DEF Stop, Task, OpRank, Order
<1>7. SameButNeutral(installed[c], loaded[c])
  BY <1>1, <1>2, <1>4, <1>6 DEF LeftAlone, Undisturbed
<1>8. goal \in Inputs /\ goal.unit[c] # None /\ goal.unit[c] \in UnitFile /\ goal.unit[c].reloadable
  BY <1>1, <1>2, <1>3, InputsTyped DEF Owed, Containers, Desired, Input, Maybe, Reloads
<1>9. installed[c] = Rendered(goal, c)
  BY <1>1, <1>2, <1>6, <1>8 DEF Owed, UnitsOwed
<1>10. installed[c] \in UnitFile /\ installed[c].reloadable /\ loaded[c] \in UnitFile
  BY <1>2, <1>5, <1>8, <1>9 DEF Rendered, UnitFile, IInv, HostInv, HostTyped, Maybe
<1> QED
  BY <1>5, <1>7, <1>10, NeutralKeeps

\* A network can be deleted when its deletion comes.
LEMMA DeleteIsPossible ==
    ASSUME NoFailures, IInv, CInv, NetworksDeleted, pc = "apply",
           NEW s \in todo, Tries(s), s.op = "DeletePodmanNetwork"
    PROVE  ~Active(s.unit) /\ ~CannotRemove(s.unit)
<1>1. s.unit \in Resource /\ Outdated(s.unit) /\ resource[s.unit] # None
  BY DEF NetworksDeleted, IInv, RunInv, RunTyped, Step, Resource
<1>2. Stop(s.unit) \notin todo
  BY NothingBefore DEF Stop, OpRank, Order
<1>3. Idle(s.unit) /\ loaded[s.unit] # None
  BY <1>1, <1>2 DEF CInv, OutdatedIsDown, Outdated
<1>4. ~InUse(s.unit)
  BY <1>1, <1>3, IdleIsUnused DEF CInv
<1> QED
  BY <1>1, <1>3, <1>4 DEF CannotRemove, Idle


\* A plan asks for nothing that is not there.
LEMMA PlanIsPossible ==
    ASSUME NoFailures, ResourcesStay, IInv, CInv, Possible, NEW in \in Inputs, Plan(in)
    PROVE  Possible'
<1>1. /\ todo' = BuildPlan(in) /\ goal' = in /\ pc = "idle" /\ pc' = "apply" /\ errs' = {}
      /\ result' = "none" /\ Plannable(in) /\ UNCHANGED <<installed, loaded, status, ran, resource>>
  BY PlanIs DEF Plan, host, podman, systemd
<1>2. Served /\ FromInputs /\ loaded = Generates(installed)
  BY <1>1 DEF CInv, SInv, Synced
<1>3. ASSUME NEW r \in Resource, installed[r] # None
      PROVE  in.unit[r] # None /\ loaded[r] = installed[r] /\ Rendered(in, r) = in.unit[r]
  <2>1. r \in Unit
    BY ResourceIsUnit
  <2>2. PICK old \in Inputs : old.unit[r] # None /\ installed[r] = Rendered(old, r)
    BY <1>2, <1>3, <2>1 DEF FromInputs
  <2>3. in.unit[r] # None /\ installed[r] = old.unit[r] /\ installed[r].refs = {} /\ installed[r].def # None
    BY <2>2, StayingResource
  <2> QED
    BY <1>2, <1>3, <2>1, <2>3, StayingResource DEF Generates
<1>4. ASSUME NEW s \in todo', s.op = "StopSystemdService"
      PROVE  loaded'[s.unit] # None
  <2>1. s.unit \in StopSystemdServices(in)
    BY <1>1, <1>4 DEF BuildPlan, FileOps, UnitOps, ServiceOps, Ops, ItemOps
  <2>2. CASE s.unit \in Recreated(in)
    <3>1. s.unit \in Resource /\ installed[s.unit] # None
      BY <2>2 DEF Recreated, MeaningfullyChanged
    <3> QED
      BY <1>1, <1>3, <3>1
  <2>3. CASE s.unit \in WithLifecycle(in, {"restart", "stop"})
    <3>1. s.unit \in Container /\ IsRunning(s.unit)
      BY <2>3 DEF WithLifecycle, PlanLifecycle, NeedsRestart, Containers
    <3> QED
      BY <1>1, <1>2, <3>1 DEF Served
  <2>4. CASE s.unit \in Container /\ IsRunning(s.unit)
    BY <1>1, <1>2, <2>4 DEF Served
  <2> QED
    BY <2>1, <2>2, <2>3, <2>4 DEF StopSystemdServices
<1>5. ASSUME NEW c \in Container, Reload(c) \in todo'
      PROVE  /\ c \in Containers(in) /\ in.unit[c].type = "running"
             /\ Task("StartSystemdService", c, None) \notin todo'
  <2> DEFINE r == Reload(c)
             t == Task("StartSystemdService", c, None)
  <2>1. c \in Containers(in) /\ PlanLifecycle(in, c) = "reload"
    <3>1. r.op = "ReloadSystemdService" /\ r.unit = c
      BY DEF Reload, Task
    <3> HIDE DEF r
    <3>2. r.unit \in WithLifecycle(in, {"reload"})
      BY <1>1, <1>5, <3>1 DEF r, BuildPlan, FileOps, UnitOps, ServiceOps, Ops, ItemOps
    <3> QED
      BY <3>1, <3>2 DEF WithLifecycle
  <2>2. in.unit[c] \in UnitFile
    BY <2>1, InputsTyped DEF Containers, Desired, Input, Maybe
  <2>3. in.unit[c].type = "running"
    BY <2>1, <2>2 DEF PlanLifecycle, UnitFile
  <2>4. c \notin WithLifecycle(in, {"restart", "start"})
    BY <2>1 DEF WithLifecycle
  <2>5. t \notin todo'
    <3>1. t.op = "StartSystemdService" /\ t.unit = c
      BY DEF Task
    <3> HIDE DEF t
    <3> QED
      BY <1>1, <2>4, <3>1 DEF BuildPlan, FileOps, UnitOps, ServiceOps, Ops, ItemOps
  <2> QED
    BY <2>1, <2>3, <2>5
<1>6. Reclaimed(in) = {}
  BY <1>3 DEF Reclaimed, Pruned, Stale
<1>7. ASSUME NEW s \in todo'
      PROVE  s.op # "DeletePodmanImage"
  BY <1>1, <1>6, <1>7 DEF BuildPlan, FileOps, UnitOps, ServiceOps, Ops, ItemOps
<1>8. ASSUME NEW s \in todo', s.op = "DeletePodmanNetwork"
      PROVE  Outdated(s.unit)' /\ resource'[s.unit] # None
  <2>1. s.unit \in Recreated(in) /\ s.unit \in Network
    BY <1>1, <1>6, <1>8 DEF BuildPlan, FileOps, UnitOps, ServiceOps, Ops, ItemOps
  <2>2. s.unit \in Resource /\ s.unit \notin Build /\ MeaningfullyChanged(in, s.unit)
    BY <2>1, UnitTypesDisjoint DEF Recreated, Resource
  <2>3. installed[s.unit] # None
    BY <2>2 DEF MeaningfullyChanged
  <2>4. resource[s.unit] # None
    BY <1>1, <2>1, <2>3 DEF Possible, NetworksMade
  <2>5. in.unit[s.unit] # None /\ loaded[s.unit] = installed[s.unit] /\ Rendered(in, s.unit) = in.unit[s.unit]
    BY <1>3, <2>2, <2>3
  <2>6. ~SameButNeutral(loaded[s.unit], in.unit[s.unit])
    BY <2>2, <2>5 DEF MeaningfullyChanged, SameButNeutral
  <2> QED
    BY <1>1, <2>3, <2>4, <2>5, <2>6 DEF Outdated
<1>9. NoneRestarts' /\ UsedIsThere' /\ NetworksMade'
  BY <1>1 DEF Possible, NoneRestarts, UsedIsThere, NetworksMade, Active
<1> QED
  BY <1>1, <1>4, <1>5, <1>7, <1>8, <1>9 DEF Possible, StopsKnown, ReloadsWanted, NetworksDeleted

\* An operation takes a resource away only if nothing uses it.
LEMMA RemovedIsUnused ==
    ASSUME NoFailures, IInv, CInv, NetworksDeleted, [Next]_vars, pc = "apply", pc' = "apply",
           NEW s \in todo, Tries(s), todo' = todo \ {s},
           NEW r \in Resource, resource[r] # None, resource'[r] = None
    PROVE  /\ s.unit = r /\ s.op \in {"DeletePodmanVolume", "DeletePodmanNetwork"}
           /\ ~InUse(r) /\ (r \notin Volume => ~Active(r))
<1>1. PICK t \in todo : /\ t.unit = r
                        /\ DeletePodmanVolume(t) \/ DeletePodmanNetwork(t) \/ DeletePodmanImage(t)
  BY ResourceLost
<1>2. t = s
  BY <1>1, OpTaken
<1>3. Remove(s)
  BY <1>1, <1>2 DEF DeletePodmanVolume, DeletePodmanNetwork, DeletePodmanImage, Exec, ExecUnit, Fails,
       host, podman
<1>4. s.op \in {"DeletePodmanVolume", "DeletePodmanNetwork"}
  BY <1>1, <1>2 DEF DeletePodmanVolume, DeletePodmanNetwork, DeletePodmanImage, Due, NetworksDeleted
<1>5. ~InUse(r)
  BY <1>1, <1>2, <1>3 DEF Remove, CannotRemove
<1>6. r \notin Volume => s.op = "DeletePodmanNetwork"
  BY <1>1, <1>2, <1>4 DEF IInv, RunInv, RunTyped, Step
<1> QED
  BY <1>1, <1>2, <1>4, <1>5, <1>6, DeleteIsPossible

\* An operation leaves what is used where it is.
LEMMA UsedStays ==
    ASSUME NoFailures, ResourcesStay, BuildsHaveFiles, IInv, CInv, Declared', UsedIsThere,
           NetworksDeleted, [Next]_vars, pc = "apply", pc' = "apply", NEW s \in todo, Tries(s),
           todo' = todo \ {s}
    PROVE  UsedIsThere'
<1>1. CASE s.op = "StartSystemdService"
  <2>1. UNCHANGED host \/ (CanStart(s.unit) /\ ServiceStarts(s.unit))
    BY <1>1, TriedAs, NothingFails, StartIsPossible DEF StartSystemdService
  <2>2. CASE UNCHANGED host
    BY <2>2 DEF UsedIsThere, host, podman, systemd, Active
  <2>3. CASE CanStart(s.unit) /\ ServiceStarts(s.unit)
    <3> DEFINE c == s.unit
    <3>1. c \in Container
      BY <1>1, TriedStart
    <3>2. \A r \in Resource : resource[r] # None => resource'[r] # None
      BY <1>1, RemovedIsUnused
    <3>3. \A r \in Resource : r \in loaded[c].refs => resource'[r] # None
      BY <2>3 DEF CanStart, ServiceStarts
    <3>4. ASSUME NEW d \in Container, ran'[d] # None, NEW r \in ran'[d].spec.refs
          PROVE  resource'[r] # None
      <4>1. CASE d = c
        <5>1. ran'[c].spec = loaded[c]
          BY <2>3, <3>1 DEF ServiceStarts, IInv, HostInv, HostTyped
        <5>2. loaded[c].refs \subseteq Resource
          BY <2>3, <3>1 DEF CanStart, IInv, HostInv, HostTyped, Unit, Maybe, UnitFile
        <5> QED
          BY <3>3, <3>4, <4>1, <5>1, <5>2
      <4>2. CASE d # c
        <5>1. ran'[d] = ran[d]
          BY <2>3, <4>2 DEF ServiceStarts, IInv, HostInv, HostTyped
        <5>2. ran[d].spec.refs \subseteq Resource
          BY <3>4, <5>1 DEF IInv, HostInv, HostTyped, Maybe, Snapshot, UnitFile
        <5> QED
          BY <3>2, <3>4, <5>1, <5>2 DEF UsedIsThere
      <4> QED
        BY <4>1, <4>2
    <3>5. ASSUME NEW r \in Resource, Active(r)'
          PROVE  resource'[r] # None
      <4>1. Active(r) \/ r \in loaded[c].refs
        BY <2>3, <3>1, <3>5, ResourceIsUnit DEF ServiceStarts, Active
      <4> QED
        BY <3>2, <3>3, <4>1 DEF UsedIsThere
    <3> QED
      BY <3>4, <3>5 DEF UsedIsThere
  <2> QED
    BY <2>1, <2>2, <2>3
<1>2. CASE s.op # "StartSystemdService"
  <2>1. ASSUME NEW c \in Container, ran'[c] # None
        PROVE  ran[c] # None /\ ran'[c].spec = ran[c].spec
    <3>1. CASE s.op = "ReloadSystemdService" /\ ran' = [ran EXCEPT ![s.unit].dirs = dirs[s.unit]]
               /\ Active(s.unit)
      <4>1. s.unit \in Container
        BY <3>1 DEF IInv, RunInv, RunTyped, Step
      <4>2. ran[s.unit] # None /\ ran[s.unit] \in Snapshot
        BY <3>1, <4>1 DEF IInv, HostInv, HostTyped, ActiveWasCreated, Maybe
      <4>3. ran' = [ran EXCEPT ![s.unit] = [ran[s.unit] EXCEPT !.dirs = dirs[s.unit]]]
        BY <3>1, Zenon
      <4>4. ran'[s.unit] = [ran[s.unit] EXCEPT !.dirs = dirs[s.unit]]
        BY <4>1, <4>3 DEF IInv, HostInv, HostTyped
      <4>5. ran'[s.unit].spec = ran[s.unit].spec
        BY <4>2, <4>4 DEF Snapshot
      <4>6. c # s.unit => ran'[c] = ran[c]
        BY <4>3 DEF IInv, HostInv, HostTyped
      <4> QED
        BY <2>1, <4>2, <4>5, <4>6
    <3>2. CASE ServiceStops(StoppedWith(s.unit))
      BY <2>1, <3>2 DEF ServiceStops
    <3>3. CASE UNCHANGED ran
      BY <2>1, <3>3
    <3> QED
      BY <1>2, <3>1, <3>2, <3>3, TriedRan
  <2>2. ASSUME NEW c \in Container, ran'[c] # None, NEW r \in ran'[c].spec.refs
        PROVE  resource'[r] # None
    <3>1. ran[c] # None /\ r \in ran[c].spec.refs /\ InUse(r)
      BY <2>1, <2>2 DEF InUse
    <3>2. r \in Resource
      BY <3>1 DEF IInv, HostInv, HostTyped, Maybe, Snapshot, UnitFile
    <3> QED
      BY <3>1, <3>2, RemovedIsUnused DEF UsedIsThere
  <2>3. ASSUME NEW r \in Resource, Active(r)'
        PROVE  resource'[r] # None
    <3>1. CASE r \in Volume
      BY <2>3, <3>1 DEF Declared
    <3>2. CASE r \notin Volume
      <4>1. Active(r)
        <5>1. CASE ServiceStops(StoppedWith(s.unit))
          BY <2>3, <5>1, ResourceIsUnit DEF ServiceStops, Active
        <5>2. CASE UNCHANGED status
          BY <2>3, <5>2 DEF Active
        <5> QED
          BY <1>2, <5>1, <5>2, TriedRan
      <4> QED
        BY <3>2, <4>1, RemovedIsUnused DEF UsedIsThere
    <3> QED
      BY <3>1, <3>2
  <2> QED
    BY <2>2, <2>3 DEF UsedIsThere
<1> QED
  BY <1>1, <1>2

\* An operation succeeds, and leaves the others possible.
LEMMA TriedIsPossible ==
    ASSUME NoFailures, ResourcesStay, BuildsHaveFiles, IInv, CInv, Declared', Possible, [Next]_vars,
           pc = "apply", pc' = "apply", NEW s \in todo, Tries(s), todo' = todo \ {s}, goal' = goal
    PROVE  Possible'
<1>1. /\ errs = {} /\ result # "error"
      /\ NoneRestarts /\ StopsKnown /\ ReloadsWanted /\ NetworksDeleted /\ UsedIsThere
  BY DEF Possible
<1>2. errs' = {} /\ result' # "error"
  BY <1>1, TriedErrs, StartIsPossible, ReloadIsPossible, DeleteIsPossible DEF StopsKnown
<1>3. NoneRestarts'
  <2> SUFFICES ASSUME NEW c \in Container PROVE status'[c] # "activating"
    BY DEF NoneRestarts
  <2>1. c \in Unit /\ status[c] # "activating"
    BY <1>1 DEF NoneRestarts, Unit
  <2>2. CASE UNCHANGED status
    BY <2>1, <2>2
  <2>3. CASE ServiceStops(StoppedWith(s.unit))
    BY <2>1, <2>3 DEF ServiceStops
  <2>4. CASE s.op = "StartSystemdService"
    <3>1. UNCHANGED host \/ ServiceStarts(s.unit)
      BY <1>1, <2>4, TriedAs, NothingFails, StartIsPossible DEF StartSystemdService
    <3> QED
      BY <2>1, <3>1 DEF ServiceStarts, host, systemd
  <2> QED
    BY <2>2, <2>3, <2>4, TriedRan
<1>4. StopsKnown'
  <2> SUFFICES ASSUME NEW t \in todo', t.op = "StopSystemdService" PROVE loaded'[t.unit] # None
    BY DEF StopsKnown
  <2>1. s.op # "DaemonReload"
    BY NothingBefore DEF OpRank, Order
  <2> QED
    BY <1>1, <2>1, TriedServices DEF StopsKnown
<1>5. ReloadsWanted'
  BY <1>1 DEF ReloadsWanted
<1>6. NetworksDeleted'
  <2> SUFFICES ASSUME NEW t \in todo', t.op = "DeletePodmanNetwork"
               PROVE  Outdated(t.unit)' /\ resource'[t.unit] # None
    BY <1>1 DEF NetworksDeleted
  <2>1. t \in Step /\ s \in Step /\ t.unit \in Network /\ t.unit \in Resource /\ t.unit \notin Build
    BY UnitTypesDisjoint DEF IInv, RunInv, RunTyped, Step, Resource
  <2>2. Outdated(t.unit) /\ resource[t.unit] # None
    BY <1>1 DEF NetworksDeleted
  <2>3. s.op # "DaemonReload"
    BY NothingBefore DEF OpRank, Order
  <2>4. loaded' = loaded
    BY <2>3, TriedServices
  <2>5. resource'[t.unit] # None
    <3> SUFFICES ASSUME resource'[t.unit] = None PROVE FALSE
      OBVIOUS
    <3>1. s.unit = t.unit /\ s.op \in {"DeletePodmanVolume", "DeletePodmanNetwork"}
      BY <1>1, <2>1, <2>2, RemovedIsUnused
    <3>2. s = t
      BY <2>1, <3>1, UnitTypesDisjoint DEF Step
    <3> QED
      BY <3>2
  <2> QED
    BY <2>1, <2>2, <2>4, <2>5 DEF Outdated
<1>7. UsedIsThere'
  BY <1>1, UsedStays
<1> QED
  BY <1>2, <1>3, <1>4, <1>5, <1>6, <1>7 DEF Possible, NetworksMade

\* A run that ends has made every network there is to be.
LEMMA FinishIsPossible ==
    ASSUME ResourcesStay, NetworksUsed, IInv, CInv, Possible, Finish
    PROVE  Possible'
<1>1. pc = "apply" /\ todo = {} /\ errs = {} /\ Succeeding
  BY DEF Finish, CInv, SInv, Owed, Possible, Succeeding
<1>2. Converged(goal) /\ goal \in Inputs
  BY <1>1, NothingLeft DEF CInv, SInv, Owed
<1>3. UNCHANGED host /\ todo' = {} /\ pc' = "idle" /\ errs' = {} /\ result' = "ok"
  BY <1>1 DEF Finish
<1>4. ASSUME NEW n \in Network, installed[n] # None
      PROVE  resource[n] # None
  <2>1. n \in Resource /\ n \in Unit
    BY ResourceIsUnit DEF Resource
  <2>2. PICK old \in Inputs : old.unit[n] # None
    BY <1>4, <2>1 DEF CInv, FromInputs
  <2>3. goal.unit[n] # None
    BY <1>2, <2>1, <2>2 DEF ResourcesStay
  <2>4. PICK c \in Containers(goal) : goal.unit[c].type = "running" /\ n \in goal.unit[c].refs
    BY <1>2, <2>3 DEF NetworksUsed
  <2>5. c \in Container /\ c \in Unit /\ goal.unit[c] \in UnitFile
    BY <1>2, InputsTyped DEF Containers, Desired, Input, Maybe
  <2>6. Active(c) /\ UpToDate(goal, c)
    BY <1>2, <2>4, <2>5 DEF Converged, InDesiredState, Possible, NoneRestarts
  <2>7. ran[c] # None /\ ran[c].spec \in UnitFile
    BY <2>5, <2>6 DEF IInv, HostInv, HostTyped, ActiveWasCreated, Maybe, Snapshot
  <2>8. SameButNeutral(ran[c].spec, Rendered(goal, c))
    BY <2>6 DEF UpToDate, SameButNeutral
  <2>9. Rendered(goal, c) \in UnitFile /\ Rendered(goal, c).refs = goal.unit[c].refs
    BY <1>2, <2>4, <2>5, RenderedWhole DEF Containers, Desired
  <2>10. n \in ran[c].spec.refs
    BY <2>4, <2>7, <2>8, <2>9, NeutralKeeps
  <2> QED
    BY <2>5, <2>7, <2>10 DEF Possible, UsedIsThere
<1>5. NoneRestarts' /\ UsedIsThere' /\ NetworksMade'
  BY <1>3, <1>4 DEF Possible, NoneRestarts, UsedIsThere, NetworksMade, host, disk, podman, systemd, Active
<1> QED
  BY <1>3, <1>5 DEF Possible, StopsKnown, ReloadsWanted, NetworksDeleted, Reload, Task

\* A run that nothing disturbs reports no failed unit and does not exit with an error,
\* whatever runs went before it: every operation it plans is possible at the place the
\* order gives it.  Nothing fails of itself, no container exits, no run dies and the host
\* does not reboot; the inputs redefine volumes, networks and builds, but neither add nor
\* drop one, and use every network they have.
THEOREM UndisturbedSucceeds ==
    ASSUME NoFailures, NoCrashes, NoReboots, NoExits, KeepsItsDirs, LocksAreKept, OneshotsStay,
           ResourcesStay, NetworksUsed, BuildsHaveFiles
    PROVE  Spec => []UndisturbedRunSucceeds
<1>1. Init => Possible
  BY ResourceIsUnit
     DEF Init, Possible, NoneRestarts, StopsKnown, ReloadsWanted, NetworksDeleted, UsedIsThere,
         NetworksMade, Active, Unit, Resource
<1>2. IInv /\ CInv /\ CInv' /\ Possible /\ [Next]_vars => Possible'
  <2> SUFFICES ASSUME IInv, CInv, CInv', Possible, [Next]_vars PROVE Possible'
    OBVIOUS
  <2>1. pc # "abort" /\ Declared'
    BY DEF CInv, SInv, Owed
  <2>2. ASSUME NEW in \in Inputs, Refuse(in)
        PROVE  Possible'
    BY <2>2 DEF Refuse, Possible, NoneRestarts, StopsKnown, ReloadsWanted, NetworksDeleted, UsedIsThere,
         NetworksMade, Active, host, disk, podman, systemd, IInv, RunInv
  <2>3. CASE UNCHANGED host /\ UNCHANGED run
    BY <2>3 DEF Possible, NoneRestarts, StopsKnown, ReloadsWanted, NetworksDeleted, UsedIsThere,
         NetworksMade, Active, Outdated, host, disk, podman, systemd, run
  <2>4. ASSUME NEW d \in Container, ContainerExit(d) \/ AutoRestart(d)
        PROVE  FALSE
    BY <2>4 DEF ContainerExit, AutoRestart, Fault, NoExits, Possible, NoneRestarts
  <2>5. ~Reboot
    BY DEF Reboot, Fault, NoReboots
  <2> QED
    BY <2>1, <2>2, <2>3, <2>4, <2>5, StepKinds, PlanIsPossible, TriedIsPossible, FinishIsPossible
<1> QED
  BY <1>1, <1>2, EmptyHost, CInvStays, Invariance, PTL DEF Spec, Possible, UndisturbedRunSucceeds

=============================================================================
