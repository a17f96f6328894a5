-------------------------- MODULE ReconcileProofs --------------------------
(* Proofs that the inductive invariant IInv of Reconcile holds, and that no *)
(* run removes a protected unit or a volume's data without its permit, for  *)
(* every set of units, files and inputs and every number of faults.         *)
EXTENDS Reconcile, TLAPS

(***************************************************************************)
(* The plan.                                                               *)
(***************************************************************************)

\* The operations of a plan name what their operation type says (plan.go:77-210).
LEMMA PlanTyped ==
    ASSUME TypeOK, NEW in \in Inputs
    PROVE  BuildPlan(in) \subseteq Step
<1>1. in \in Input
  BY InputsTyped
<1>2. Desired(in) \subseteq Unit /\ \A u \in Desired(in) : in.unit[u] \in UnitFile
  BY <1>1 DEF Input, Desired, Maybe
<1>3. MissingImages(in) \subseteq Image
  BY <1>2 DEF MissingImages, Containers, UnitFile, Maybe
<1>4. Pruned(in) \subseteq Unit /\ Recreated(in) \subseteq Resource
  BY DEF Pruned, Stale, Recreated
<1>5. \A actions : WithLifecycle(in, actions) \subseteq Container
  BY DEF WithLifecycle, Containers
<1>6. StopSystemdServices(in) \subseteq Unit
  BY <1>4, <1>5 DEF StopSystemdServices, Unit
<1>7. Reclaimed(in) \subseteq Resource
  BY DEF Reclaimed
<1>8. ItemOps("PullPodmanImage", None, MissingImages(in)) \subseteq Step
  BY <1>3 DEF ItemOps, Step
<1>9. Ops("StopSystemdService", StopSystemdServices(in)) \subseteq Step
  BY <1>6 DEF Ops, Step
<1>10. \A us \in SUBSET Unit : /\ Ops("WriteFsQuadletUnitFile", us) \subseteq Step
                               /\ Ops("DeleteFsQuadletUnitFile", us) \subseteq Step
  BY DEF Ops, Step
<1>11. \A us \in SUBSET Container : /\ Ops("DeleteFsContainerConfig", us) \subseteq Step
                                    /\ Ops("ReloadSystemdService", us) \subseteq Step
                                    /\ Ops("StartSystemdService", us) \subseteq Step
  BY DEF Ops, Step
<1>12. \A u \in Container : \A fs \in SUBSET File :
          /\ ItemOps("WriteFsContainerConfigFile", u, fs) \subseteq Step
          /\ ItemOps("DeleteFsContainerConfigFile", u, fs) \subseteq Step
  BY DEF ItemOps, Step
<1>13. \A u \in Container : \A ds \in SUBSET Dir :
          /\ ItemOps("WriteFsContainerConfigDir", u, ds) \subseteq Step
          /\ ItemOps("DeleteFsContainerConfigDir", u, ds) \subseteq Step
  BY DEF ItemOps, Step
<1>14. \A u \in Build : \A fs \in SUBSET File :
          /\ ItemOps("WriteFsBuildContextFile", u, fs) \subseteq Step
          /\ ItemOps("DeleteFsBuildContextFile", u, fs) \subseteq Step
  BY DEF ItemOps, Step
<1>15. \A us \in SUBSET Build : /\ Ops("DeleteFsBuildContext", us) \subseteq Step
                                /\ Ops("DeletePodmanImage", us) \subseteq Step
  BY DEF Ops, Step
<1>16. \A us \in SUBSET Volume : Ops("DeletePodmanVolume", us) \subseteq Step
  BY DEF Ops, Step
<1>17. \A us \in SUBSET Network : Ops("DeletePodmanNetwork", us) \subseteq Step
  BY DEF Ops, Step
<1>18. \A ss \in SUBSET Secret : /\ ItemOps("DeletePodmanSecret", None, ss) \subseteq Step
                                 /\ ItemOps("UpsertPodmanSecret", None, ss) \subseteq Step
  BY DEF ItemOps, Step
<1>19. Ops("DaemonReload", {None}) \subseteq Step
  BY DEF Ops, Step
<1>20. StaleSecrets(in) \subseteq Secret /\ ChangedSecrets(in) \subseteq Secret
  BY DEF StaleSecrets, ChangedSecrets
<1>21. \A u : /\ ChangedFiles(in, u) \subseteq File /\ StaleFiles(in, u) \subseteq File
              /\ ChangedDirs(in, u) \subseteq Dir /\ StaleDirs(in, u) \subseteq Dir
  BY DEF ChangedFiles, StaleFiles, ChangedDirs, StaleDirs
<1>22. /\ (UNION {ItemOps("WriteFsContainerConfigFile", c, ChangedFiles(in, c)) : c \in Containers(in)}) \subseteq Step
       /\ (UNION {ItemOps("DeleteFsContainerConfigFile", c, StaleFiles(in, c)) : c \in Containers(in)}) \subseteq Step
       /\ (UNION {ItemOps("WriteFsContainerConfigDir", c, ChangedDirs(in, c)) : c \in Containers(in)}) \subseteq Step
       /\ (UNION {ItemOps("DeleteFsContainerConfigDir", c, StaleDirs(in, c)) : c \in Containers(in)}) \subseteq Step
  BY <1>12, <1>13, <1>21 DEF Containers
<1>23. /\ (UNION {ItemOps("WriteFsBuildContextFile", b, ChangedFiles(in, b)) : b \in Builds(in)}) \subseteq Step
       /\ (UNION {ItemOps("DeleteFsBuildContextFile", b, StaleFiles(in, b)) : b \in Builds(in)}) \subseteq Step
  BY <1>14, <1>21 DEF Builds
<1>24. FileOps(in) \subseteq Step
  <2>1. Wiped(in) \cup (Pruned(in) \cap Container) \subseteq Container
    BY DEF Wiped, Containers
  <2>2. Ops("DeleteFsContainerConfig", Wiped(in) \cup (Pruned(in) \cap Container)) \subseteq Step
    BY <2>1, <1>11
  <2>3. Ops("DeleteFsBuildContext", Pruned(in) \cap Build) \subseteq Step
    BY <1>15
  <2> QED
    BY <2>2, <2>3, <1>22, <1>23 DEF FileOps
<1>25. UnitOps(in) \subseteq Step
  BY <1>2, <1>4, <1>10, <1>15, <1>16, <1>17, <1>19 DEF UnitOps
<1>26. ServiceOps(in) \subseteq Step
  BY <1>5, <1>9, <1>11 DEF ServiceOps
<1> QED
  BY <1>8, <1>18, <1>20, <1>24, <1>25, <1>26 DEF BuildPlan

\* A plan removes a unit, or a volume's data, only with the permit of the unit
\* installed now, and writes only units of its input (plan.go:488-508,
\* plan_volume.go:17-39).
LEMMA PlanPermitted ==
    ASSUME TypeOK, NEW in \in Inputs, Plannable(in), NEW s \in BuildPlan(in)
    PROVE  /\ s.op = "WriteFsQuadletUnitFile" => in.unit[s.unit] # None
           /\ s.op = "DeleteFsQuadletUnitFile" =>
                 installed[s.unit] # None /\ (s.unit \in Build \/ installed[s.unit].allowed)
           /\ s.op = "DeletePodmanVolume" =>
                 installed[s.unit] # None /\ installed[s.unit].allowed /\ installed[s.unit].reclaim
<1>1. s.op = "WriteFsQuadletUnitFile" => s.unit \in Desired(in)
  BY DEF BuildPlan, FileOps, UnitOps, ServiceOps, Ops, ItemOps
<1>2. s.op = "DeleteFsQuadletUnitFile" => s.unit \in Pruned(in)
  BY DEF BuildPlan, FileOps, UnitOps, ServiceOps, Ops, ItemOps
<1>3. s.op = "DeletePodmanVolume" => s.unit \in (Recreated(in) \cup Reclaimed(in)) \cap Volume
  BY DEF BuildPlan, FileOps, UnitOps, ServiceOps, Ops, ItemOps
<1>4. \A u \in Pruned(in) : installed[u] # None /\ (u \in Build \/ installed[u].allowed)
  BY DEF Pruned, Stale, IsUnitRemovalAllowed
<1>5. \A v \in Recreated(in) \cap Volume : installed[v] # None /\ ~VolumeChangeRefused(in, v)
  BY UnitTypesDisjoint DEF Recreated, MeaningfullyChanged, Plannable
<1>6. \A v \in Recreated(in) \cap Volume : installed[v].allowed /\ installed[v].reclaim
  BY <1>5, UnitTypesDisjoint DEF Recreated, VolumeChangeRefused
<1>7. \A v \in Reclaimed(in) \cap Volume : v \in Pruned(in) /\ v \notin Build /\ installed[v].reclaim
  BY UnitTypesDisjoint DEF Reclaimed
<1> QED
  BY <1>1, <1>2, <1>3, <1>4, <1>5, <1>6, <1>7 DEF Desired

(***************************************************************************)
(* What every operation shares.                                            *)
(***************************************************************************)

\* An operation that is done leaves a run that is still well formed.
LEMMA DoneKeepsRun ==
    ASSUME RunInv, NEW s \in todo, Done(s)
    PROVE  RunInv'
BY DEF RunInv, RunTyped, Done, PermitGiven

\* So does one that fails, whatever it has done to the host.
LEMMA NotDoneKeepsRun ==
    ASSUME RunInv, NEW s \in todo, NEW cannot, NEW blamed \in SUBSET Unit, NotDone(s, cannot, blamed)
    PROVE  RunInv'
<1>1. faults' \in 0..MaxFaults
  BY FaultsBounded DEF NotDone, Fault, RunInv, RunTyped
<1> QED
  BY <1>1 DEF NotDone, RunInv, RunTyped, PermitGiven

\* One that fails without effect keeps the whole invariant (apply_runner.go).
LEMMA FailsKeeps ==
    ASSUME IInv, NEW s \in todo, NEW cannot, NEW blamed \in SUBSET Unit, Fails(s, cannot, blamed)
    PROVE  IInv'
<1>1. UNCHANGED host
  BY DEF Fails
<1>2. HostInv'
  BY <1>1 DEF IInv, HostInv, HostTyped, ActiveWasCreated, Active, host, disk, podman, systemd
<1>3. RunInv'
  BY NotDoneKeepsRun DEF IInv, Fails
<1> QED
  BY <1>2, <1>3 DEF IInv

\* The same for a failure that is only logged.
LEMMA ExecKeeps ==
    ASSUME IInv, NEW s \in todo, NEW cannot, Exec(s, cannot)
    PROVE  IInv'
BY FailsKeeps DEF Exec

\* And for one that is recorded against the unit.
LEMMA ExecUnitKeeps ==
    ASSUME IInv, NEW s \in todo, NEW cannot, ExecUnit(s, cannot), s.unit \in Unit
    PROVE  IInv'
BY FailsKeeps DEF ExecUnit

\* What the service of a resource makes when a container's start runs it.
LEMMA FreshIsMade ==
    ASSUME HostInv, NEW c \in Container, CanStart(c),
           NEW r \in Resource, r \in loaded[c].refs, ~Active(r)
    PROVE  Fresh(r) \in Made
<1>1. loaded[r] \in UnitFile
  BY DEF CanStart, CanRun, HostInv, HostTyped, Unit, Maybe
<1>2. loaded[r].def \in Maybe(Value)
  BY <1>1 DEF UnitFile
<1>3. NoFiles \in FileMap
  BY DEF NoFiles, FileMap, Maybe
<1>4. r \in Build => files[r] \in FileMap
  BY DEF HostInv, HostTyped, Stored
<1> QED
  BY <1>2, <1>3, <1>4 DEF Fresh, Made

\* So is what podman makes up for a volume that is missing.
LEMMA ImplicitIsMade == Implicit \in Made
BY DEF Implicit, Made, NoFiles, FileMap, Maybe

\* The service of a container that can start leaves the host well formed.
LEMMA StartKeepsHost ==
    ASSUME HostInv, NEW c \in Container, CanStart(c), ServiceStarts(c),
           UNCHANGED <<disk, secrets, loaded>>
    PROVE  HostInv'
<1>1. loaded[c] \in UnitFile
  BY DEF CanStart, HostInv, HostTyped, Unit, Maybe
<1>2. loaded[c].refs \subseteq Resource /\ loaded[c].image \in Maybe(Image)
  BY <1>1 DEF UnitFile
<1>3. \A r \in Resource : (r \in loaded[c].refs /\ ~Active(r)) => Fresh(r) \in Made
  BY FreshIsMade
<1>4. Implicit \in Made
  BY ImplicitIsMade
<1>5. ResourcesAfterStart(c) \in [Resource -> Maybe(Made)]
  BY <1>3, <1>4 DEF ResourcesAfterStart, HostInv, HostTyped, Maybe
<1>6. status' \in [Unit -> {"inactive", "active", "activating"}]
  BY DEF ServiceStarts, HostInv, HostTyped
<1>7. images' \subseteq Image
  BY <1>2 DEF ServiceStarts, HostInv, HostTyped, Maybe
<1>8. ran'[c] \in Snapshot /\ ran' \in [Container -> Maybe(Snapshot)]
  <2> DEFINE made == [spec |-> loaded[c],
                files |-> [f \in File |-> IF f \in loaded[c].mounts THEN files[c][f] ELSE None],
                dirs |-> [d \in Dir |-> IF d \in loaded[c].mounts THEN dirs[c][d] ELSE None],
                secrets |-> [s \in Secret |->
                                IF s \in loaded[c].secrets THEN secrets[s] ELSE None],
                resource |-> [r \in Resource |->
                                IF r \in loaded[c].refs THEN resource'[r] ELSE None]]
  <2>1. made.files \in FileMap
    BY DEF HostInv, HostTyped, Stored, FileMap, Maybe
  <2>2. made.dirs \in DirMap
    BY DEF HostInv, HostTyped, DirMap, Maybe
  <2>3. made.secrets \in [Secret -> Maybe(Value)]
    BY DEF HostInv, HostTyped, Maybe
  <2>4. made.resource \in [Resource -> Maybe(Made)]
    BY <1>5 DEF ServiceStarts, Maybe
  <2>5. made \in Snapshot
    BY <1>1, <2>1, <2>2, <2>3, <2>4 DEF Snapshot
  <2>6. ran' = [ran EXCEPT ![c] = made]
    BY DEF ServiceStarts
  <2> HIDE DEF made
  <2> QED
    BY <2>5, <2>6 DEF HostInv, HostTyped, Maybe
<1>9. HostTyped'
  BY <1>5, <1>6, <1>7, <1>8 DEF HostInv, HostTyped, ServiceStarts, disk
<1>10. ActiveWasCreated'
  <2> SUFFICES ASSUME NEW k \in Container, status'[k] = "active"
               PROVE  ran'[k] # None
    BY DEF ActiveWasCreated, Active
  <2>1. CASE k = c
    BY <2>1, <1>8, NoneIsFresh
  <2>2. CASE k # c
    <3>1. k \notin loaded[c].refs
      BY <1>2, UnitTypesDisjoint
    <3>2. status[k] = "active"
      BY <2>2, <3>1 DEF ServiceStarts, Unit
    <3> QED
      BY <2>2, <3>2 DEF ServiceStarts, HostInv, HostTyped, ActiveWasCreated, Active
  <2> QED
    BY <2>1, <2>2
<1> QED
  BY <1>9, <1>10 DEF HostInv

(***************************************************************************)
(* The operations of a run.                                                *)
(***************************************************************************)

\* Each operation that writes or removes something on disk (apply.go:104-189).
LEMMA DiskStepKeeps ==
    ASSUME IInv, NEW s \in todo,
           \/ WriteFsContainerConfigFile(s) \/ DeleteFsContainerConfigFile(s)
           \/ DeleteFsContainerConfig(s)
           \/ WriteFsContainerConfigDir(s) \/ DeleteFsContainerConfigDir(s)
           \/ WriteFsBuildContextFile(s) \/ DeleteFsBuildContextFile(s)
           \/ DeleteFsBuildContext(s)
           \/ WriteFsQuadletUnitFile(s) \/ DeleteFsQuadletUnitFile(s)
    PROVE  IInv'
<1>1. s \in Step /\ goal \in Inputs /\ goal \in Input
  BY InputsTyped DEF IInv, RunInv, RunTyped, Maybe
<1>2. ASSUME Exec(s, FALSE) PROVE IInv'
  BY <1>2, ExecKeeps
<1>3. ASSUME ExecUnit(s, FALSE), s.unit \in Unit PROVE IInv'
  BY <1>3, ExecUnitKeeps
<1>4. ASSUME Done(s) \/ (s.unit \in Unit /\ NotDone(s, FALSE, {s.unit})), UNCHANGED <<podman, systemd>>,
             installed' \in [Unit -> Maybe(UnitFile)], files' \in [Stored -> FileMap],
             dirs' \in [Container -> DirMap]
      PROVE  IInv'
  <2>1. RunInv'
    BY <1>4, DoneKeepsRun, NotDoneKeepsRun DEF IInv
  <2>2. HostInv'
    BY <1>4 DEF IInv, HostInv, HostTyped, ActiveWasCreated, Active, podman, systemd
  <2> QED
    BY <2>1, <2>2 DEF IInv
<1>5. /\ installed \in [Unit -> Maybe(UnitFile)] /\ files \in [Stored -> FileMap]
      /\ dirs \in [Container -> DirMap]
  BY DEF IInv, HostInv, HostTyped
<1>6. NoFiles \in FileMap /\ [d \in Dir |-> None] \in DirMap
  BY DEF NoFiles, FileMap, DirMap, Maybe
<1>7. \A u \in Stored, f \in File, v \in Maybe(Value) :
         [files EXCEPT ![u][f] = v] \in [Stored -> FileMap]
  BY <1>5 DEF FileMap
<1>8. \A c \in Container, d \in Dir, v \in Maybe(Value) :
         [dirs EXCEPT ![c][d] = v] \in [Container -> DirMap]
  BY <1>5 DEF DirMap
<1>9. ASSUME Done(s) \/ (s.unit \in Unit /\ NotDone(s, FALSE, {s.unit})),
              UNCHANGED <<installed, files, podman, systemd>>, NEW c \in Container, NEW d \in Dir,
              NEW v \in Maybe(Value), dirs' = [dirs EXCEPT ![c][d] = v]
       PROVE  IInv'
  <2>1. dirs' \in [Container -> DirMap]
    BY <1>8, <1>9
  <2> QED
    BY <1>4, <1>5, <1>9, <2>1
<1>10. ASSUME FilesWritten(s), UNCHANGED dirs, NEW u \in Stored, NEW f \in File,
              NEW v \in Maybe(Value), files' = [files EXCEPT ![u][f] = v]
       PROVE  IInv'
  <2>1. files' \in [Stored -> FileMap]
    BY <1>7, <1>10
  <2> QED
    BY <1>4, <1>5, <1>10, <2>1 DEF FilesWritten
<1>11. ASSUME FilesWritten(s), NEW u \in Stored, files' = [files EXCEPT ![u] = NoFiles],
              dirs' \in [Container -> DirMap]
       PROVE  IInv'
  <2>1. files' \in [Stored -> FileMap]
    BY <1>5, <1>6, <1>11
  <2> QED
    BY <1>4, <1>5, <1>11, <2>1 DEF FilesWritten
<1>12. CASE WriteFsContainerConfigFile(s)
  <2>1. s.unit \in Container /\ s.item \in File
    BY <1>1, <1>12 DEF WriteFsContainerConfigFile, Due, Step
  <2>2. goal.files[s.unit][s.item] \in Maybe(Value)
    BY <1>1, <2>1 DEF Input, FileMap, Stored
  <2> QED
    BY <1>3, <1>12, <1>10, <2>1, <2>2
       DEF WriteFsContainerConfigFile, SetFile, Stored, Unit
<1>13. CASE DeleteFsContainerConfigFile(s)
  <2>1. s.unit \in Container /\ s.item \in File
    BY <1>1, <1>13 DEF DeleteFsContainerConfigFile, Due, Step
  <2> QED
    BY <1>2, <1>13, <1>10, <2>1
       DEF DeleteFsContainerConfigFile, SetFile, Stored, Maybe
<1>14. CASE DeleteFsContainerConfig(s)
  <2>1. s.unit \in Container
    BY <1>1, <1>14 DEF DeleteFsContainerConfig, Due, Step
  <2> QED
    BY <1>2, <1>5, <1>6, <1>14, <1>11, <2>1 DEF DeleteFsContainerConfig, Stored
<1>15. CASE WriteFsContainerConfigDir(s)
  <2>1. s.unit \in Container /\ s.item \in Dir
    BY <1>1, <1>15 DEF WriteFsContainerConfigDir, Due, Step
  <2>2. goal.dirs[s.unit][s.item] \in Maybe(Value)
    BY <1>1, <2>1 DEF Input, DirMap
  <2> QED
    BY <1>3, <1>15, <1>9, <2>1, <2>2 DEF WriteFsContainerConfigDir, Unit
<1>16. CASE DeleteFsContainerConfigDir(s)
  <2>1. s.unit \in Container /\ s.item \in Dir
    BY <1>1, <1>16 DEF DeleteFsContainerConfigDir, Due, Step
  <2> QED
    BY <1>2, <1>16, <1>9, <2>1 DEF DeleteFsContainerConfigDir, FilesWritten, Maybe
<1>17. CASE WriteFsBuildContextFile(s)
  <2>1. s.unit \in Build /\ s.item \in File
    BY <1>1, <1>17 DEF WriteFsBuildContextFile, Due, Step
  <2>2. goal.files[s.unit][s.item] \in Maybe(Value)
    BY <1>1, <2>1 DEF Input, FileMap, Stored
  <2> QED
    BY <1>3, <1>17, <1>10, <2>1, <2>2
       DEF WriteFsBuildContextFile, SetFile, Stored, Unit, Resource
<1>18. CASE DeleteFsBuildContextFile(s)
  <2>1. s.unit \in Build /\ s.item \in File
    BY <1>1, <1>18 DEF DeleteFsBuildContextFile, Due, Step
  <2> QED
    BY <1>2, <1>18, <1>10, <2>1
       DEF DeleteFsBuildContextFile, SetFile, Stored, Maybe
<1>19. CASE DeleteFsBuildContext(s)
  <2>1. s.unit \in Build
    BY <1>1, <1>19 DEF DeleteFsBuildContext, Due, Step
  <2> QED
    BY <1>2, <1>5, <1>19, <1>11, <2>1 DEF DeleteFsBuildContext, Stored
<1>20. CASE WriteFsQuadletUnitFile(s)
  <2>1. s.unit \in Unit /\ goal.unit[s.unit] # None
    BY <1>1, <1>20 DEF WriteFsQuadletUnitFile, Due, Step, IInv, RunInv, PermitGiven
  <2>2. Rendered(goal, s.unit) \in UnitFile
    BY <1>1, <2>1 DEF Input, Rendered, UnitFile, Maybe
  <2> QED
    BY <1>3, <1>4, <1>5, <1>20, <2>1, <2>2 DEF WriteFsQuadletUnitFile, Maybe
<1>21. CASE DeleteFsQuadletUnitFile(s)
  BY <1>2, <1>4, <1>5, <1>21 DEF DeleteFsQuadletUnitFile, Maybe
<1> QED
  BY <1>12, <1>13, <1>14, <1>15, <1>16, <1>17, <1>18, <1>19, <1>20, <1>21

\* Each operation that changes podman's stores (apply.go:83-94, 168-177, 191-211).
LEMMA PodmanStepKeeps ==
    ASSUME IInv, NEW s \in todo,
           \/ PullPodmanImage(s) \/ DeletePodmanSecret(s) \/ UpsertPodmanSecret(s)
           \/ DeletePodmanVolume(s) \/ DeletePodmanNetwork(s) \/ DeletePodmanImage(s)
    PROVE  IInv'
<1>1. s \in Step /\ goal \in Inputs /\ goal \in Input
  BY InputsTyped DEF IInv, RunInv, RunTyped, Maybe
<1>2. ASSUME NEW cannot, Exec(s, cannot) PROVE IInv'
  BY <1>2, ExecKeeps
<1>3. ASSUME Done(s), UNCHANGED <<disk, systemd>>, images' \subseteq Image,
             secrets' \in [Secret -> Maybe(Value)], resource' \in [Resource -> Maybe(Made)]
      PROVE  IInv'
  <2>1. RunInv'
    BY <1>3, DoneKeepsRun DEF IInv
  <2>2. HostInv'
    BY <1>3 DEF IInv, HostInv, HostTyped, ActiveWasCreated, Active, disk, systemd
  <2> QED
    BY <2>1, <2>2 DEF IInv
<1>4. /\ images \subseteq Image /\ secrets \in [Secret -> Maybe(Value)]
      /\ resource \in [Resource -> Maybe(Made)]
  BY DEF IInv, HostInv, HostTyped
<1>5. ASSUME Remove(s), s.unit \in Resource PROVE IInv'
  <2>1. resource' \in [Resource -> Maybe(Made)]
    BY <1>4, <1>5 DEF Remove, Maybe
  <2> QED
    BY <1>3, <1>4, <1>5, <2>1 DEF Remove
<1>6. CASE PullPodmanImage(s)
  <2>1. s.item \in Image
    BY <1>1, <1>6 DEF PullPodmanImage, Due, Step
  <2>2. CASE images' = images \cup {s.item} /\ Done(s) /\ UNCHANGED <<disk, secrets, resource, systemd>>
    BY <1>3, <1>4, <2>1, <2>2
  <2>3. CASE /\ Fault("fail") /\ pc' = "abort" /\ todo' = todo \ {s}
             /\ errs' = errs \cup {c \in Containers(goal) : goal.unit[c].image = s.item}
             /\ UNCHANGED <<host, goal, base, result>>
    <3>1. errs' \subseteq Unit
      BY <2>3 DEF IInv, RunInv, RunTyped, Containers, Unit
    <3>2. faults' \in 0..MaxFaults
      BY <2>3, FaultsBounded DEF Fault, IInv, RunInv, RunTyped
    <3>3. RunInv'
      BY <2>3, <3>1, <3>2 DEF IInv, RunInv, RunTyped, PermitGiven
    <3>4. HostInv'
      BY <2>3 DEF IInv, HostInv, HostTyped, ActiveWasCreated, Active, host, disk, podman, systemd
    <3> QED
      BY <3>3, <3>4 DEF IInv
  <2> QED
    BY <1>6, <2>2, <2>3 DEF PullPodmanImage
<1>7. CASE DeletePodmanSecret(s)
  <2>1. CASE secrets' = [secrets EXCEPT ![s.item] = None] /\ Done(s)
             /\ UNCHANGED <<disk, images, resource, systemd>>
    <3>1. secrets' \in [Secret -> Maybe(Value)]
      BY <1>4, <2>1 DEF Maybe
    <3> QED
      BY <1>3, <1>4, <2>1, <3>1
  <2> QED
    BY <1>2, <1>7, <2>1 DEF DeletePodmanSecret
<1>8. CASE UpsertPodmanSecret(s)
  <2>1. CASE secrets' = [secrets EXCEPT ![s.item] = goal.secrets[s.item]] /\ Done(s)
             /\ UNCHANGED <<disk, images, resource, systemd>>
    <3>1. s.item \in Secret
      BY <1>1, <1>8 DEF UpsertPodmanSecret, Due, Step
    <3>2. secrets' \in [Secret -> Maybe(Value)]
      BY <1>1, <1>4, <2>1, <3>1 DEF Input
    <3> QED
      BY <1>3, <1>4, <2>1, <3>2
  <2> QED
    BY <1>2, <1>8, <2>1 DEF UpsertPodmanSecret
<1>9. CASE DeletePodmanVolume(s)
  <2>1. s.unit \in Resource
    BY <1>1, <1>9 DEF DeletePodmanVolume, Due, Step, Resource
  <2> QED
    BY <1>2, <1>5, <1>9, <2>1 DEF DeletePodmanVolume
<1>10. CASE DeletePodmanNetwork(s)
  <2>1. s.unit \in Resource /\ s.unit \in Unit
    BY <1>1, <1>10 DEF DeletePodmanNetwork, Due, Step, Resource, Unit
  <2> QED
    BY <1>2, <1>5, <1>10, <2>1, ExecUnitKeeps DEF DeletePodmanNetwork
<1>11. CASE DeletePodmanImage(s)
  <2>1. s.unit \in Resource
    BY <1>1, <1>11 DEF DeletePodmanImage, Due, Step, Resource
  <2> QED
    BY <1>2, <1>5, <1>11, <2>1 DEF DeletePodmanImage
<1> QED
  BY <1>6, <1>7, <1>8, <1>9, <1>10, <1>11

\* Each operation that drives systemd (apply.go:97-101, 214-244).
LEMMA SystemdStepKeeps ==
    ASSUME IInv, NEW s \in todo,
           \/ StopSystemdService(s) \/ DaemonReload(s)
           \/ ReloadSystemdService(s) \/ StartSystemdService(s)
    PROVE  IInv'
<1>1. s \in Step
  BY DEF IInv, RunInv, RunTyped
<1>2. ASSUME NEW cannot, ExecUnit(s, cannot), s.unit \in Unit PROVE IInv'
  BY <1>2, ExecUnitKeeps
<1>3. ASSUME Done(s), HostInv' PROVE IInv'
  BY <1>3, DoneKeepsRun DEF IInv
<1>4. CASE StopSystemdService(s)
  <2>1. s.unit \in Unit
    BY <1>1, <1>4 DEF StopSystemdService, Due, Step
  <2>2. CASE ServiceStops(StoppedWith(s.unit)) /\ Done(s) /\ UNCHANGED <<disk, podman, loaded>>
    <3>1. HostTyped'
      BY <2>2 DEF IInv, HostInv, HostTyped, ServiceStops, disk, podman, Maybe
    <3>2. ActiveWasCreated'
      BY <2>2 DEF IInv, HostInv, HostTyped, ActiveWasCreated, Active, ServiceStops, Unit
    <3> QED
      BY <1>3, <2>2, <3>1, <3>2 DEF HostInv
  <2> QED
    BY <1>2, <1>4, <2>1, <2>2 DEF StopSystemdService
<1>5. CASE DaemonReload(s)
  <2>1. CASE loaded' = Generated /\ Done(s) /\ UNCHANGED <<disk, podman, status, ran>>
    <3>1. Generated \in [Unit -> Maybe(UnitFile)]
      BY DEF Generated, IInv, HostInv, HostTyped, Maybe
    <3>2. HostInv'
      BY <2>1, <3>1 DEF IInv, HostInv, HostTyped, ActiveWasCreated, Active, disk, podman
    <3> QED
      BY <1>3, <2>1, <3>2
  <2>2. CASE /\ Fault("fail") /\ pc' = "abort" /\ todo' = {}
             /\ UNCHANGED <<host, goal, base, errs, result>>
    <3>1. faults' \in 0..MaxFaults
      BY <2>2, FaultsBounded DEF Fault, IInv, RunInv, RunTyped
    <3>2. RunInv'
      BY <2>2, <3>1 DEF IInv, RunInv, RunTyped
    <3>3. HostInv'
      BY <2>2 DEF IInv, HostInv, HostTyped, ActiveWasCreated, Active, host, disk, podman, systemd
    <3> QED
      BY <3>2, <3>3 DEF IInv
  <2> QED
    BY <1>5, <2>1, <2>2 DEF DaemonReload
<1>6. CASE ReloadSystemdService(s)
  <2>1. s.unit \in Container /\ s.unit \in Unit
    BY <1>1, <1>6 DEF ReloadSystemdService, Due, Step, Unit
  <2>2. CASE /\ Active(s.unit) /\ ran' = [ran EXCEPT ![s.unit].dirs = dirs[s.unit]]
             /\ Done(s) /\ UNCHANGED <<disk, podman, loaded, status>>
    <3>1. ran[s.unit] \in Snapshot
      BY <2>1, <2>2 DEF IInv, HostInv, HostTyped, ActiveWasCreated, Maybe
    <3>2. dirs[s.unit] \in DirMap
      BY <2>1 DEF IInv, HostInv, HostTyped
    <3>3. [ran[s.unit] EXCEPT !.dirs = dirs[s.unit]] \in Snapshot
      BY <3>1, <3>2 DEF Snapshot
    <3>4. ran' = [ran EXCEPT ![s.unit] = [ran[s.unit] EXCEPT !.dirs = dirs[s.unit]]]
      BY <2>2
    <3>5. ran' \in [Container -> Maybe(Snapshot)] /\ ran'[s.unit] # None
      BY <2>1, <3>3, <3>4, NoneIsFresh DEF IInv, HostInv, HostTyped, Maybe
    <3>6. \A c \in Container : ran[c] # None => ran'[c] # None
      BY <2>1, <3>4, <3>5 DEF IInv, HostInv, HostTyped
    <3>7. HostInv'
      BY <2>2, <3>5, <3>6 DEF IInv, HostInv, HostTyped, ActiveWasCreated, Active, disk, podman
    <3> QED
      BY <1>3, <2>2, <3>7
  <2> QED
    BY <1>2, <1>6, <2>1, <2>2 DEF ReloadSystemdService
<1>7. CASE StartSystemdService(s)
  <2>1. s.unit \in Container /\ s.unit \in Unit
    BY <1>1, <1>7 DEF StartSystemdService, Due, Step, Unit
  <2>2. CASE Done(s) /\ UNCHANGED host
    <3>1. HostInv'
      BY <2>2 DEF IInv, HostInv, HostTyped, ActiveWasCreated, Active, host, disk, podman, systemd
    <3> QED
      BY <1>3, <2>2, <3>1
  <2>3. CASE /\ CanStart(s.unit) /\ ServiceStarts(s.unit) /\ Done(s)
             /\ UNCHANGED <<disk, secrets, loaded>>
    BY <1>3, <2>1, <2>3, StartKeepsHost DEF IInv
  <2>4. CASE /\ IF CanStart(s.unit) THEN Fault("fail") ELSE UNCHANGED faults
             /\ ~Active(s.unit)
             /\ \E to \in IF loaded[s.unit] # None /\ loaded[s.unit].type = "running"
                          THEN {"inactive", "activating"} ELSE {status[s.unit]} :
                   status' = [status EXCEPT ![s.unit] = to]
             /\ todo' = todo \ {s} /\ errs' = errs \cup {s.unit}
             /\ UNCHANGED <<disk, podman, loaded, ran, pc, goal, base, result>>
    <3>1. faults' \in 0..MaxFaults
      BY <2>4, FaultsBounded DEF Fault, IInv, RunInv, RunTyped
    <3>2. RunInv'
      BY <2>1, <2>4, <3>1 DEF IInv, RunInv, RunTyped, PermitGiven
    <3>3. PICK to \in {"inactive", "activating", status[s.unit]} :
             status' = [status EXCEPT ![s.unit] = to] /\ to # "active"
      BY <2>4 DEF Active
    <3>4. /\ status' \in [Unit -> {"inactive", "active", "activating"}]
          /\ \A c \in Container : status'[c] = "active" => status[c] = "active"
      BY <2>1, <3>3 DEF IInv, HostInv, HostTyped, Unit
    <3>5. HostInv'
      BY <2>4, <3>4 DEF IInv, HostInv, HostTyped, ActiveWasCreated, Active, disk, podman
    <3> QED
      BY <3>2, <3>5 DEF IInv
  <2> QED
    BY <1>7, <2>2, <2>3, <2>4 DEF StartSystemdService
<1> QED
  BY <1>4, <1>5, <1>6, <1>7

\* Planning, finishing, dying and what happens to the host by itself.
LEMMA OtherStepKeeps ==
    ASSUME IInv,
           \/ \E in \in Inputs : Plan(in) \/ Refuse(in)
           \/ Finish \/ Crash \/ Reboot
           \/ \E c \in Container : ContainerExit(c) \/ AutoRestart(c)
    PROVE  IInv'
<1>1. ASSUME UNCHANGED host PROVE HostInv'
  BY <1>1 DEF IInv, HostInv, HostTyped, ActiveWasCreated, Active, host, disk, podman, systemd
<1>2. ASSUME NEW kind, Fault(kind) PROVE faults' \in 0..MaxFaults
  BY <1>2, FaultsBounded DEF Fault, IInv, RunInv, RunTyped
<1>3. ASSUME Ends, faults' \in 0..MaxFaults PROVE RunInv'
  BY <1>3 DEF Ends, IInv, RunInv, RunTyped
<1>4. ASSUME UNCHANGED run, faults' \in 0..MaxFaults PROVE RunInv'
  BY <1>4 DEF run, IInv, RunInv, RunTyped, PermitGiven
<1>5. ASSUME NEW in \in Inputs, Plan(in) PROVE IInv'
  <2>1. HostInv'
    BY <1>1, <1>5 DEF Plan
  <2>2. faults' \in 0..MaxFaults
    BY <1>2, <1>5 DEF Plan, IInv, RunInv, RunTyped
  <2>3. todo' \subseteq BuildPlan(in)
    BY <1>5 DEF Plan
  <2>4. \A s \in todo' : PermitGiven(s)'
    <3> SUFFICES ASSUME NEW s \in todo' PROVE PermitGiven(s)'
      OBVIOUS
    <3>1. s \in BuildPlan(in)
      BY <2>3
    <3>2. TypeOK /\ Plannable(in)
      BY <1>5 DEF Plan, IInv, HostInv, RunInv, TypeOK
    <3>3. goal' = in /\ base' = installed
      BY <1>5 DEF Plan
    <3> QED
      BY <3>1, <3>2, <3>3, PlanPermitted DEF PermitGiven
  <2>5. in # None
    BY NoneIsFresh
  <2>6. todo' \subseteq Step
    BY <2>3, PlanTyped DEF IInv, HostInv, RunInv, TypeOK
  <2>7. RunInv'
    BY <1>5, <2>2, <2>4, <2>5, <2>6 DEF Plan, IInv, HostInv, HostTyped, RunInv, RunTyped, Maybe
  <2> QED
    BY <2>1, <2>7 DEF IInv
<1>6. ASSUME NEW in \in Inputs, Refuse(in) PROVE IInv'
  <2>1. todo = {}
    BY <1>6 DEF Refuse, IInv, RunInv
  <2>2. RunInv'
    BY <1>6, <2>1 DEF Refuse, IInv, HostInv, HostTyped, RunInv, RunTyped, Maybe
  <2> QED
    BY <1>1, <1>6, <2>2 DEF Refuse, IInv
<1>7. CASE Finish
  <2>1. RunInv'
    BY <1>7 DEF Finish, IInv, RunInv, RunTyped
  <2> QED
    BY <1>1, <1>7, <2>1 DEF Finish, IInv
<1>8. CASE Crash
  <2>1. RunInv'
    BY <1>2, <1>3, <1>8 DEF Crash
  <2>2. Torn \in UnitFile
    BY DEF Torn, UnitFile, Maybe
  <2>3. installed' \in [Unit -> Maybe(UnitFile)]
    BY <1>8, <2>2 DEF Crash, IInv, HostInv, HostTyped, Maybe
  <2>4. HostInv'
    BY <1>8, <2>3 DEF Crash, IInv, HostInv, HostTyped, ActiveWasCreated, Active, podman, systemd
  <2> QED
    BY <2>1, <2>4 DEF IInv
<1>9. CASE Reboot
  <2>1. RunInv'
    BY <1>2, <1>3, <1>9 DEF Reboot
  <2>2. Generated \in [Unit -> Maybe(UnitFile)]
    BY DEF Generated, IInv, HostInv, HostTyped, Maybe
  <2>3. /\ status' \in [Unit -> {"inactive", "active", "activating"}]
        /\ \A c \in Container : status'[c] # "active"
    BY <1>9 DEF Reboot, Unit
  <2>4. HostInv'
    BY <1>9, <2>2, <2>3
       DEF Reboot, IInv, HostInv, HostTyped, ActiveWasCreated, Active, disk, podman, Maybe
  <2> QED
    BY <2>1, <2>4 DEF IInv
<1>10. ASSUME NEW c \in Container, ContainerExit(c) PROVE IInv'
  <2>1. RunInv'
    BY <1>2, <1>4, <1>10 DEF ContainerExit
  <2>2. /\ status' \in [Unit -> {"inactive", "active", "activating"}]
        /\ \A k \in Container : status'[k] = "active" => status[k] = "active" /\ k # c
    BY <1>10 DEF ContainerExit, IInv, HostInv, HostTyped, Unit
  <2>3. HostInv'
    BY <1>10, <2>2
       DEF ContainerExit, IInv, HostInv, HostTyped, ActiveWasCreated, Active, disk, podman, Maybe
  <2> QED
    BY <2>1, <2>3 DEF IInv
<1>11. ASSUME NEW c \in Container, AutoRestart(c) PROVE IInv'
  <2>1. HostInv'
    BY <1>11, StartKeepsHost DEF AutoRestart, IInv
  <2>2. RunInv'
    BY <1>4, <1>11 DEF AutoRestart, IInv, RunInv, RunTyped
  <2> QED
    BY <2>1, <2>2 DEF IInv
<1> QED
  BY <1>5, <1>6, <1>7, <1>8, <1>9, <1>10, <1>11

(***************************************************************************)
(* The invariant and what follows from it.                                 *)
(***************************************************************************)

\* The invariant holds on a host syslet has never run on.
LEMMA InitKeeps == Init => IInv
<1> SUFFICES ASSUME Init PROVE IInv
  OBVIOUS
<1>1. HostInv
  BY DEF Init, HostInv, HostTyped, ActiveWasCreated, Active, NoFiles, FileMap, DirMap, Maybe, Unit
<1>2. RunInv
  BY FaultsBounded DEF Init, RunInv, RunTyped, Maybe
<1> QED
  BY <1>1, <1>2 DEF IInv

\* And no step of a run, of the host or of a fault leaves it.
LEMMA NextKeeps == IInv /\ [Next]_vars => IInv'
<1> SUFFICES ASSUME IInv, [Next]_vars PROVE IInv'
  OBVIOUS
<1>1. CASE UNCHANGED vars
  BY <1>1 DEF vars, IInv, HostInv, HostTyped, ActiveWasCreated, Active, RunInv, RunTyped, PermitGiven
<1>2. CASE ApplyStep
  BY <1>2, DiskStepKeeps, PodmanStepKeeps, SystemdStepKeeps, OtherStepKeeps DEF ApplyStep
<1>3. CASE \/ \E in \in Inputs : Plan(in) \/ Refuse(in)
           \/ Crash \/ Reboot
           \/ \E c \in Container : ContainerExit(c) \/ AutoRestart(c)
  BY <1>3, OtherStepKeeps
<1> QED
  BY <1>1, <1>2, <1>3 DEF Next

\* Every state is well typed, no run plans a removal without the permit of the
\* installed units, and every active container was created by systemd.
THEOREM Invariance == Spec => []IInv
<1>1. Init => IInv
  BY InitKeeps
<1>2. IInv /\ [Next]_vars => IInv'
  BY NextKeeps
<1> QED
  BY <1>1, <1>2, PTL DEF Spec

\* The only operation that takes a unit file away.
LEMMA InstalledLost ==
    ASSUME IInv, [Next]_vars, NEW u \in Unit, installed[u] # None, installed'[u] = None
    PROVE  \E s \in todo : DeleteFsQuadletUnitFile(s) /\ s.unit = u
<1>1. ASSUME UNCHANGED installed PROVE FALSE
  BY <1>1
<1>2. CASE ApplyStep
  <2>1. PICK s \in todo : WriteFsQuadletUnitFile(s) \/ DeleteFsQuadletUnitFile(s)
    BY <1>1, <1>2
       DEF ApplyStep, Finish, PullPodmanImage, StopSystemdService, WriteFsContainerConfigFile,
           DeleteFsContainerConfigFile, DeleteFsContainerConfig, WriteFsContainerConfigDir,
           DeleteFsContainerConfigDir, WriteFsBuildContextFile, DeleteFsBuildContextFile,
           DeleteFsBuildContext, DeletePodmanSecret, UpsertPodmanSecret, DeletePodmanVolume,
           DeletePodmanNetwork, DeletePodmanImage, DaemonReload, ReloadSystemdService,
           StartSystemdService, Remove, Exec, ExecUnit, Fails, FilesWritten, host, disk
  <2>2. s \in Step /\ goal \in Input
    BY InputsTyped DEF IInv, RunInv, RunTyped, Maybe
  <2>3. CASE WriteFsQuadletUnitFile(s)
    <3>1. s.unit \in Unit /\ goal.unit[s.unit] # None
      BY <2>2, <2>3 DEF WriteFsQuadletUnitFile, Due, Step, IInv, RunInv, PermitGiven
    <3>2. Rendered(goal, s.unit) \in UnitFile
      BY <2>2, <3>1 DEF Input, Rendered, UnitFile, Maybe
    <3> QED
      BY <1>1, <2>3, <3>1, <3>2, NoneIsFresh
         DEF WriteFsQuadletUnitFile, ExecUnit, Fails, host, disk, IInv, HostInv, HostTyped
  <2>4. CASE DeleteFsQuadletUnitFile(s)
    <3>1. s.unit = u
      BY <1>1, <2>4 DEF DeleteFsQuadletUnitFile, Exec, Fails, host, disk, IInv, HostInv, HostTyped
    <3> QED
      BY <2>4, <3>1
  <2> QED
    BY <2>1, <2>3, <2>4
<1>3. CASE Crash
  <2>1. Torn \in UnitFile
    BY DEF Torn, UnitFile, Maybe
  <2> QED
    BY <1>1, <1>3, <2>1, NoneIsFresh DEF Crash, IInv, HostInv, HostTyped
<1>4. CASE \E in \in Inputs : Plan(in) \/ Refuse(in)
  BY <1>1, <1>4 DEF Plan, Refuse, host, disk
<1>5. CASE Reboot \/ UNCHANGED vars
  BY <1>1, <1>5 DEF Reboot, vars, disk
<1>6. CASE \E c \in Container : ContainerExit(c) \/ AutoRestart(c)
  BY <1>1, <1>6 DEF ContainerExit, AutoRestart, disk
<1> QED
  BY <1>2, <1>3, <1>4, <1>5, <1>6 DEF Next

\* Protected units survive every run: whatever the input, the faults and the
\* order of events, a unit planned over while removalAllowed was false stays.
THEOREM ProtectedStays == Spec => ProtectedUnitStays
<1>1. ASSUME IInv, [Next]_vars, NEW u \in Unit \ Build,
             installed[u] # None, base[u] # None, ~base[u].allowed, pc # "idle"
      PROVE  installed'[u] # None
  <2> SUFFICES ASSUME installed'[u] = None PROVE FALSE
    OBVIOUS
  <2>1. PICK s \in todo : DeleteFsQuadletUnitFile(s) /\ s.unit = u
    BY <1>1, InstalledLost
  <2>2. PermitGiven(s)
    BY <1>1 DEF IInv, RunInv
  <2> QED
    BY <1>1, <2>1, <2>2 DEF PermitGiven, DeleteFsQuadletUnitFile, Due
<1>2. IInv /\ [Next]_vars =>
        [\A u \in Unit \ Build :
          (installed[u] # None /\ base[u] # None /\ ~base[u].allowed /\ pc # "idle")
              => installed'[u] # None]_vars
  BY <1>1
<1> QED
  BY <1>2, Invariance, PTL DEF Spec, ProtectedUnitStays

\* And the only ones that take a podman resource away: what systemd and podman do by
\* themselves makes them.
LEMMA ResourceLost ==
    ASSUME IInv, [Next]_vars, NEW r \in Resource, resource[r] # None, resource'[r] = None
    PROVE  \E s \in todo : /\ s.unit = r
                           /\ \/ DeletePodmanVolume(s) \/ DeletePodmanNetwork(s)
                              \/ DeletePodmanImage(s)
<1>1. ASSUME UNCHANGED resource PROVE FALSE
  BY <1>1
<1>2. ASSUME NEW c \in Container, CanStart(c), ServiceStarts(c) PROVE FALSE
  <2>1. \/ r \in loaded[c].refs /\ ~Active(r) /\ resource'[r] = Fresh(r)
        \/ resource'[r] = Implicit
        \/ resource'[r] = resource[r]
    BY <1>2 DEF ServiceStarts, ResourcesAfterStart
  <2> QED
    BY <1>2, <2>1, FreshIsMade, ImplicitIsMade, NoneIsFresh DEF IInv
<1>3. CASE ApplyStep
  <2>1. PICK s \in todo : \/ DeletePodmanVolume(s) \/ DeletePodmanNetwork(s)
                          \/ DeletePodmanImage(s) \/ StartSystemdService(s)
    BY <1>1, <1>3
       DEF ApplyStep, Finish, PullPodmanImage, StopSystemdService, WriteFsContainerConfigFile,
           DeleteFsContainerConfigFile, DeleteFsContainerConfig, WriteFsContainerConfigDir,
           DeleteFsContainerConfigDir, WriteFsBuildContextFile, DeleteFsBuildContextFile,
           DeleteFsBuildContext, DeletePodmanSecret, UpsertPodmanSecret, WriteFsQuadletUnitFile,
           DeleteFsQuadletUnitFile, DaemonReload, ReloadSystemdService, Exec, ExecUnit, Fails,
           FilesWritten, host, podman
  <2>2. CASE StartSystemdService(s)
    <3>1. s.unit \in Container
      BY <2>2 DEF StartSystemdService, Due, Step, IInv, RunInv, RunTyped
    <3> QED
      BY <1>1, <1>2, <2>2, <3>1 DEF StartSystemdService, host, podman
  <2>3. CASE DeletePodmanVolume(s) \/ DeletePodmanNetwork(s) \/ DeletePodmanImage(s)
    <3>1. Remove(s)
      BY <1>1, <2>3
         DEF DeletePodmanVolume, DeletePodmanNetwork, DeletePodmanImage, Exec, ExecUnit, Fails,
             host, podman
    <3> QED
      BY <2>3, <3>1 DEF Remove, IInv, HostInv, HostTyped
  <2> QED
    BY <2>1, <2>2, <2>3
<1>4. CASE \/ \E in \in Inputs : Plan(in) \/ Refuse(in)
           \/ Crash \/ Reboot \/ UNCHANGED vars
  BY <1>1, <1>4 DEF Plan, Refuse, Crash, Reboot, vars, host, podman
<1>5. CASE \E c \in Container : ContainerExit(c) \/ AutoRestart(c)
  BY <1>1, <1>2, <1>5 DEF ContainerExit, AutoRestart, podman
<1> QED
  BY <1>3, <1>4, <1>5 DEF Next

\* A volume's data goes only with both markers of the unit installed at plan time.
THEOREM VolumeDataProtected == Spec => VolumeDataNeedsPermit
<1>1. ASSUME IInv, [Next]_vars, NEW v \in Volume, resource[v] # None, resource'[v] = None
      PROVE  base[v] # None /\ base[v].allowed /\ base[v].reclaim
  <2>1. v \in Resource /\ v \notin Network /\ v \notin Build
    BY UnitTypesDisjoint DEF Resource
  <2>2. PICK s \in todo : /\ s.unit = v
                          /\ \/ DeletePodmanVolume(s) \/ DeletePodmanNetwork(s)
                             \/ DeletePodmanImage(s)
    BY <1>1, <2>1, ResourceLost
  <2>3. s.op = "DeletePodmanVolume"
    BY <1>1, <2>1, <2>2
       DEF DeletePodmanVolume, DeletePodmanNetwork, DeletePodmanImage, Due, Step, IInv, RunInv, RunTyped
  <2> QED
    BY <1>1, <2>2, <2>3 DEF IInv, RunInv, PermitGiven
<1>2. IInv /\ [Next]_vars =>
        [\A v \in Volume :
          (resource[v] # None /\ resource'[v] = None)
              => base[v] # None /\ base[v].allowed /\ base[v].reclaim]_vars
  BY <1>1
<1> QED
  BY <1>2, Invariance, PTL DEF Spec, VolumeDataNeedsPermit
=============================================================================
