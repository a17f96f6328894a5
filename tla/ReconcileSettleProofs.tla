----------------------- MODULE ReconcileSettleProofs -----------------------
(***************************************************************************)
(* Proofs about what a run that succeeds leaves, where no operation fails  *)
(* for a reason of its own and the inputs keep clear of the deletion of a  *)
(* container's configDirs together with its last config file.  The disk    *)
(* and the secrets are those of the input, also after runs that died; and  *)
(* if none died (which leaves work behind that no later plan sees), a plan *)
(* of the same input finds nothing to do.  The invariant says what the     *)
(* rest of a plan still owes: every difference from the input is an        *)
(* operation not tried yet.  The lemmas at the end are about a run whose   *)
(* host another one changes; TwoRunsProofs uses them.                      *)
(***************************************************************************)
EXTENDS ReconcileOrderProofs

\* No operation fails that could succeed; no run is cut short.
NoFailures == "fail" \notin FaultKinds
NoCrashes == "crash" \notin FaultKinds

\* No input drops the last config file of a container that has configDirs.
KeepsItsDirs ==
    \A in \in Inputs : \A c \in Containers(in) :
        in.files[c] = NoFiles => \A d \in Dir : in.dirs[c][d] = None

Task(op, u, x) == [op |-> op, unit |-> u, item |-> x]

(***************************************************************************)
(* The invariant.                                                          *)
(***************************************************************************)

\* What a plan deletes or overwrites is not what its input wants.
Licensed(s) ==
    /\ s.op \in {"DeleteFsContainerConfigFile", "DeleteFsBuildContextFile"} =>
          goal.files[s.unit][s.item] = None
    /\ s.op = "DeleteFsContainerConfig" => goal.unit[s.unit] = None \/ goal.files[s.unit] = NoFiles
    /\ s.op = "DeleteFsBuildContext" => goal.unit[s.unit] = None
    /\ s.op = "DeleteFsContainerConfigDir" => goal.dirs[s.unit][s.item] = None
    /\ s.op = "DeletePodmanSecret" => goal.secrets[s.item] = None
    /\ s.op = "DeleteFsQuadletUnitFile" => goal.unit[s.unit] = None
    /\ s.op = "StartSystemdService" => goal.unit[s.unit] # None /\ goal.unit[s.unit].type = "running"

\* What keeps the unit file of a unit without a spec.
Locked(u) ==
    \/ u \notin Build /\ ~base[u].allowed
    \/ \E c \in Container : /\ goal.unit[c] = None /\ base[c] # None
                            /\ ~base[c].allowed /\ u \in base[c].refs

\* Every difference between the disk and the input is still to be dealt with.
UnitsOwed ==
    \A u \in Unit :
        IF goal.unit[u] # None
        THEN installed[u] = Rendered(goal, u) \/ Task("WriteFsQuadletUnitFile", u, None) \in todo
        ELSE \/ installed[u] = None \/ Locked(u)
             \/ Task("DeleteFsQuadletUnitFile", u, None) \in todo
LockedStay ==
    \A c \in Container :
        goal.unit[c] = None /\ base[c] # None /\ ~base[c].allowed => installed[c] = base[c]
FilesOwed ==
    \A u \in Stored : \A f \in File : goal.unit[u] # None =>
        \/ files[u][f] = goal.files[u][f]
        \/ IF goal.files[u][f] # None
           THEN \/ Task("WriteFsContainerConfigFile", u, f) \in todo
                \/ Task("WriteFsBuildContextFile", u, f) \in todo
           ELSE \/ Task("DeleteFsContainerConfigFile", u, f) \in todo
                \/ Task("DeleteFsBuildContextFile", u, f) \in todo
DirsOwed ==
    \A c \in Container : \A d \in Dir : goal.unit[c] # None =>
        \/ dirs[c][d] = goal.dirs[c][d]
        \/ IF goal.dirs[c][d] # None
           THEN Task("WriteFsContainerConfigDir", c, d) \in todo
           ELSE Task("DeleteFsContainerConfigDir", c, d) \in todo
SecretsOwed ==
    \A x \in Secret :
        \/ secrets[x] = goal.secrets[x]
        \/ IF goal.secrets[x] # None
           THEN Task("UpsertPodmanSecret", None, x) \in todo
           ELSE Task("DeletePodmanSecret", None, x) \in todo
Owed ==
    /\ pc # "abort"
    /\ pc = "apply" =>
          /\ goal \in Inputs /\ PostRenderValid(goal)
          /\ \A s \in todo : Licensed(s)
          /\ UnitsOwed /\ LockedStay /\ FilesOwed /\ DirsOwed /\ SecretsOwed

\* No installed container refers to a unit that is not installed.
Closed ==
    \A c \in Container : installed[c] # None =>
        /\ installed[c].def # None
        /\ \A r \in installed[c].refs : installed[r] # None

\* systemd has the units on disk, or those there were when the run planned and a
\* daemon-reload is still to come.
Generates(x) ==
    [u \in Unit |-> IF x[u] # None /\ x[u].def # None /\ \A r \in x[u].refs : x[r] # None
                    THEN x[u] ELSE None]
Synced ==
    IF pc = "apply" /\ Task("DaemonReload", None, None) \in todo
    THEN loaded = Generates(base)
    ELSE /\ loaded = Generates(installed)
         /\ \A s \in todo : s.op \notin {"WriteFsQuadletUnitFile", "DeleteFsQuadletUnitFile"}

\* A container that is to run runs and will not be stopped, or is still to be started;
\* one that is not to run is down or still to be stopped.
Steady(c) ==
    /\ goal.unit[c].type = "running" =>
          \/ Task("StartSystemdService", c, None) \in todo
          \/ /\ IsRunning(c) /\ loaded[c] # None /\ loaded[c].type = "running"
             /\ \A s \in todo : s.op = "StopSystemdService" => c # s.unit /\ s.unit \notin loaded[c].refs
    /\ goal.unit[c].type = "stopped" =>
          ~IsRunning(c) \/ Task("StopSystemdService", c, None) \in todo
Lively == pc = "apply" /\ errs = {} => \A c \in Containers(goal) : Steady(c)

SInv == Owed /\ Closed /\ Synced /\ Lively

(***************************************************************************)
(* What one step of a run does.                                            *)
(***************************************************************************)
Tries(s) ==
    \/ PullPodmanImage(s) \/ StopSystemdService(s)
    \/ WriteFsContainerConfigFile(s) \/ DeleteFsContainerConfigFile(s)
    \/ DeleteFsContainerConfig(s)
    \/ WriteFsContainerConfigDir(s) \/ DeleteFsContainerConfigDir(s)
    \/ WriteFsBuildContextFile(s) \/ DeleteFsBuildContextFile(s)
    \/ DeleteFsBuildContext(s)
    \/ DeletePodmanSecret(s) \/ UpsertPodmanSecret(s)
    \/ WriteFsQuadletUnitFile(s) \/ DeleteFsQuadletUnitFile(s)
    \/ DeletePodmanVolume(s) \/ DeletePodmanNetwork(s) \/ DeletePodmanImage(s)
    \/ DaemonReload(s) \/ ReloadSystemdService(s) \/ StartSystemdService(s)

\* What is installed and stored once s has been tried.
UnitsAfter(s) ==
    \A u \in Unit : installed'[u] =
        CASE s.op = "WriteFsQuadletUnitFile" /\ s.unit = u -> Rendered(goal, u)
          [] s.op = "DeleteFsQuadletUnitFile" /\ s.unit = u -> None
          [] OTHER -> installed[u]
FilesAfter(s) ==
    \A u \in Stored : \A f \in File : files'[u][f] =
        CASE s.op \in {"WriteFsContainerConfigFile", "WriteFsBuildContextFile"}
                /\ s.unit = u /\ s.item = f -> goal.files[u][f]
          [] s.op \in {"DeleteFsContainerConfigFile", "DeleteFsBuildContextFile"}
                /\ s.unit = u /\ s.item = f -> None
          [] s.op \in {"DeleteFsContainerConfig", "DeleteFsBuildContext"} /\ s.unit = u -> None
          [] OTHER -> files[u][f]
DirsAfter(s) ==
    \A c \in Container : \A d \in Dir : dirs'[c][d] =
        CASE s.op = "WriteFsContainerConfigDir" /\ s.unit = c /\ s.item = d -> goal.dirs[c][d]
          [] s.op = "DeleteFsContainerConfigDir" /\ s.unit = c /\ s.item = d -> None
          [] s.op = "DeleteFsContainerConfig" /\ s.unit = c -> None
          [] OTHER -> dirs[c][d]
SecretsAfter(s) ==
    \A x \in Secret : secrets'[x] =
        CASE s.op = "UpsertPodmanSecret" /\ s.item = x -> goal.secrets[x]
          [] s.op = "DeletePodmanSecret" /\ s.item = x -> None
          [] OTHER -> secrets[x]

\* Where nothing fails of itself, what is tried is done, or cannot be done.
LEMMA NothingFails ==
    ASSUME NoFailures, NEW s
    PROVE  /\ ~Fault("fail")
           /\ \A blamed : ~NotDone(s, FALSE, blamed)
           /\ ~Exec(s, FALSE) /\ ~ExecUnit(s, FALSE)
<1>1. ~Fault("fail")
  BY DEF NoFailures, Fault
<1> QED
  BY <1>1 DEF NotDone, Fails, Exec, ExecUnit

\* An operation is tried as what its name says, when nothing that precedes it is left.
LEMMA TriedAs ==
    ASSUME NEW s, Tries(s)
    PROVE  /\ s.op = "PullPodmanImage" => PullPodmanImage(s)
           /\ s.op = "StopSystemdService" => StopSystemdService(s)
           /\ s.op = "WriteFsContainerConfigFile" => WriteFsContainerConfigFile(s)
           /\ s.op = "DeleteFsContainerConfigFile" => DeleteFsContainerConfigFile(s)
           /\ s.op = "DeleteFsContainerConfig" => DeleteFsContainerConfig(s)
           /\ s.op = "WriteFsContainerConfigDir" => WriteFsContainerConfigDir(s)
           /\ s.op = "DeleteFsContainerConfigDir" => DeleteFsContainerConfigDir(s)
           /\ s.op = "WriteFsBuildContextFile" => WriteFsBuildContextFile(s)
           /\ s.op = "DeleteFsBuildContextFile" => DeleteFsBuildContextFile(s)
           /\ s.op = "DeleteFsBuildContext" => DeleteFsBuildContext(s)
           /\ s.op = "DeletePodmanSecret" => DeletePodmanSecret(s)
           /\ s.op = "UpsertPodmanSecret" => UpsertPodmanSecret(s)
           /\ s.op = "WriteFsQuadletUnitFile" => WriteFsQuadletUnitFile(s)
           /\ s.op = "DeleteFsQuadletUnitFile" => DeleteFsQuadletUnitFile(s)
           /\ s.op = "DeletePodmanVolume" => DeletePodmanVolume(s)
           /\ s.op = "DeletePodmanNetwork" => DeletePodmanNetwork(s)
           /\ s.op = "DeletePodmanImage" => DeletePodmanImage(s)
           /\ s.op = "DaemonReload" => DaemonReload(s)
           /\ s.op = "ReloadSystemdService" => ReloadSystemdService(s)
           /\ s.op = "StartSystemdService" => StartSystemdService(s)
           /\ s \in todo /\ \A t \in todo : ~Precedes(t, s)
  BY DEF Tries, Due,
         PullPodmanImage, StopSystemdService, WriteFsContainerConfigFile,
         DeleteFsContainerConfigFile, DeleteFsContainerConfig, WriteFsContainerConfigDir,
         DeleteFsContainerConfigDir, WriteFsBuildContextFile, DeleteFsBuildContextFile,
         DeleteFsBuildContext, DeletePodmanSecret, UpsertPodmanSecret, WriteFsQuadletUnitFile,
         DeleteFsQuadletUnitFile, DeletePodmanVolume, DeletePodmanNetwork, DeletePodmanImage,
         DaemonReload, ReloadSystemdService, StartSystemdService

\* What an operation tried by a run that applies does to the disk and the secrets.
LEMMA TriedUnits ==
    ASSUME NoFailures, IInv, NEW s \in todo, Tries(s)
    PROVE  UnitsAfter(s)
<1>1. CASE s.op \notin {"WriteFsQuadletUnitFile", "DeleteFsQuadletUnitFile"}
  <2>1. installed' = installed
    BY <1>1 DEF Tries,
           PullPodmanImage, StopSystemdService, WriteFsContainerConfigFile,
           DeleteFsContainerConfigFile, DeleteFsContainerConfig, WriteFsContainerConfigDir,
           DeleteFsContainerConfigDir, WriteFsBuildContextFile, DeleteFsBuildContextFile,
           DeleteFsBuildContext, DeletePodmanSecret, UpsertPodmanSecret, WriteFsQuadletUnitFile,
           DeleteFsQuadletUnitFile, DeletePodmanVolume,
           DeletePodmanNetwork, DeletePodmanImage, DaemonReload, ReloadSystemdService,
           StartSystemdService, Due, Remove, Exec, ExecUnit, Fails, FilesWritten, host, disk
  <2> QED
    BY <1>1, <2>1 DEF UnitsAfter
<1>2. CASE s.op = "WriteFsQuadletUnitFile"
  <2>1. installed' = [installed EXCEPT ![s.unit] = Rendered(goal, s.unit)]
    BY <1>2, TriedAs, NothingFails DEF WriteFsQuadletUnitFile
  <2> QED
    BY <1>2, <2>1 DEF UnitsAfter, IInv, HostInv, HostTyped
<1>3. CASE s.op = "DeleteFsQuadletUnitFile"
  <2>1. installed' = [installed EXCEPT ![s.unit] = None]
    BY <1>3, TriedAs, NothingFails DEF DeleteFsQuadletUnitFile
  <2> QED
    BY <1>3, <2>1 DEF UnitsAfter, IInv, HostInv, HostTyped
<1> QED
  BY <1>1, <1>2, <1>3

\* What an operation does to the files,
LEMMA TriedFiles ==
    ASSUME NoFailures, IInv, NEW s \in todo, Tries(s)
    PROVE  FilesAfter(s)
<1>1. CASE s.op \in {"WriteFsContainerConfigFile", "WriteFsBuildContextFile"}
  <2>1. SetFile(s, goal.files[s.unit][s.item])
    BY <1>1, TriedAs, NothingFails DEF WriteFsContainerConfigFile, WriteFsBuildContextFile
  <2> QED
    BY <1>1, <2>1 DEF SetFile, FilesAfter, IInv, HostInv, HostTyped, FileMap
<1>2. CASE s.op \in {"DeleteFsContainerConfigFile", "DeleteFsBuildContextFile"}
  <2>1. SetFile(s, None)
    BY <1>2, TriedAs, NothingFails DEF DeleteFsContainerConfigFile, DeleteFsBuildContextFile
  <2> QED
    BY <1>2, <2>1 DEF SetFile, FilesAfter, IInv, HostInv, HostTyped, FileMap
<1>3. CASE s.op \in {"DeleteFsContainerConfig", "DeleteFsBuildContext"}
  <2>1. files' = [files EXCEPT ![s.unit] = NoFiles]
    BY <1>3, TriedAs, NothingFails DEF DeleteFsContainerConfig, DeleteFsBuildContext
  <2> QED
    BY <1>3, <2>1 DEF FilesAfter, NoFiles, IInv, HostInv, HostTyped
<1>4. CASE s.op \notin {"WriteFsContainerConfigFile", "WriteFsBuildContextFile",
                        "DeleteFsContainerConfigFile", "DeleteFsBuildContextFile",
                        "DeleteFsContainerConfig", "DeleteFsBuildContext"}
  <2>1. files' = files
    BY <1>4 DEF Tries,
           PullPodmanImage, StopSystemdService, WriteFsContainerConfigFile,
           DeleteFsContainerConfigFile, DeleteFsContainerConfig, WriteFsContainerConfigDir,
           DeleteFsContainerConfigDir, WriteFsBuildContextFile, DeleteFsBuildContextFile,
           DeleteFsBuildContext, DeletePodmanSecret, UpsertPodmanSecret, WriteFsQuadletUnitFile,
           DeleteFsQuadletUnitFile, DeletePodmanVolume,
           DeletePodmanNetwork, DeletePodmanImage, DaemonReload, ReloadSystemdService,
           StartSystemdService, Due, Remove, Exec, ExecUnit, Fails, FilesWritten, host, disk
  <2> QED
    BY <1>4, <2>1 DEF FilesAfter
<1> QED
  BY <1>1, <1>2, <1>3, <1>4

\* to the configDirs
LEMMA TriedDirs ==
    ASSUME NoFailures, IInv, NEW s \in todo, Tries(s)
    PROVE  DirsAfter(s)
<1>1. CASE s.op = "WriteFsContainerConfigDir"
  <2>1. dirs' = [dirs EXCEPT ![s.unit][s.item] = goal.dirs[s.unit][s.item]]
    BY <1>1, TriedAs, NothingFails DEF WriteFsContainerConfigDir
  <2> QED
    BY <1>1, <2>1 DEF DirsAfter, IInv, HostInv, HostTyped, DirMap
<1>2. CASE s.op = "DeleteFsContainerConfigDir"
  <2>1. dirs' = [dirs EXCEPT ![s.unit][s.item] = None]
    BY <1>2, TriedAs, NothingFails DEF DeleteFsContainerConfigDir
  <2> QED
    BY <1>2, <2>1 DEF DirsAfter, IInv, HostInv, HostTyped, DirMap
<1>3. CASE s.op = "DeleteFsContainerConfig"
  <2>1. dirs' = [dirs EXCEPT ![s.unit] = [d \in Dir |-> None]]
    BY <1>3, TriedAs, NothingFails DEF DeleteFsContainerConfig
  <2> QED
    BY <1>3, <2>1 DEF DirsAfter, IInv, HostInv, HostTyped
<1>4. CASE s.op \notin {"WriteFsContainerConfigDir", "DeleteFsContainerConfigDir",
                        "DeleteFsContainerConfig"}
  <2>1. dirs' = dirs
    BY <1>4 DEF Tries,
           PullPodmanImage, StopSystemdService, WriteFsContainerConfigFile,
           DeleteFsContainerConfigFile, DeleteFsContainerConfig, WriteFsContainerConfigDir,
           DeleteFsContainerConfigDir, WriteFsBuildContextFile, DeleteFsBuildContextFile,
           DeleteFsBuildContext, DeletePodmanSecret, UpsertPodmanSecret, WriteFsQuadletUnitFile,
           DeleteFsQuadletUnitFile, DeletePodmanVolume,
           DeletePodmanNetwork, DeletePodmanImage, DaemonReload, ReloadSystemdService,
           StartSystemdService, Due, Remove, Exec, ExecUnit, Fails, FilesWritten, host, disk
  <2> QED
    BY <1>4, <2>1 DEF DirsAfter
<1> QED
  BY <1>1, <1>2, <1>3, <1>4

\* and to the secrets.
LEMMA TriedSecrets ==
    ASSUME NoFailures, IInv, NEW s \in todo, Tries(s)
    PROVE  SecretsAfter(s)
<1>1. CASE s.op = "UpsertPodmanSecret"
  <2>1. secrets' = [secrets EXCEPT ![s.item] = goal.secrets[s.item]]
    BY <1>1, TriedAs, NothingFails DEF UpsertPodmanSecret
  <2> QED
    BY <1>1, <2>1 DEF SecretsAfter, IInv, HostInv, HostTyped
<1>2. CASE s.op = "DeletePodmanSecret"
  <2>1. secrets' = [secrets EXCEPT ![s.item] = None]
    BY <1>2, TriedAs, NothingFails DEF DeletePodmanSecret
  <2> QED
    BY <1>2, <2>1 DEF SecretsAfter, IInv, HostInv, HostTyped
<1>3. CASE s.op \notin {"UpsertPodmanSecret", "DeletePodmanSecret"}
  <2>1. secrets' = secrets
    BY <1>3 DEF Tries,
           PullPodmanImage, StopSystemdService, WriteFsContainerConfigFile,
           DeleteFsContainerConfigFile, DeleteFsContainerConfig, WriteFsContainerConfigDir,
           DeleteFsContainerConfigDir, WriteFsBuildContextFile, DeleteFsBuildContextFile,
           DeleteFsBuildContext, DeletePodmanSecret, UpsertPodmanSecret, WriteFsQuadletUnitFile,
           DeleteFsQuadletUnitFile, DeletePodmanVolume,
           DeletePodmanNetwork, DeletePodmanImage, DaemonReload, ReloadSystemdService,
           StartSystemdService, Due, Remove, Exec, ExecUnit, Fails, FilesWritten, host, podman
  <2> QED
    BY <1>3, <2>1 DEF SecretsAfter
<1> QED
  BY <1>1, <1>2, <1>3

\* What it does to the services: only a daemon-reload changes what systemd knows,
\* only stops and starts change who runs, and no container but that of the start
\* comes up or fails to.
LEMMA TriedServices ==
    ASSUME NoFailures, IInv, NEW s \in todo, Tries(s)
    PROVE  /\ loaded' = IF s.op = "DaemonReload" THEN Generated ELSE loaded
           /\ s.op \notin {"StopSystemdService", "StartSystemdService"} => status' = status
           /\ s.op = "StopSystemdService" =>
                 \/ \A u \in Unit : status'[u] = IF u \in StoppedWith(s.unit) THEN "inactive" ELSE status[u]
                 \/ errs' # {} /\ status' = status
           /\ s.op = "StartSystemdService" =>
                 /\ \A c \in Container : c # s.unit => status'[c] = status[c]
                 /\ status'[s.unit] = "active" \/ errs' # {}
<1>1. CASE s.op \notin {"StopSystemdService", "StartSystemdService", "DaemonReload"}
  <2>1. CASE s.op = "ReloadSystemdService"
    <3>1. ReloadSystemdService(s)
      BY <2>1, TriedAs
    <3>2. UNCHANGED <<loaded, status>>
      BY <3>1, Zenon DEF ReloadSystemdService, Fails, ExecUnit, host, systemd
    <3> QED
      BY <2>1, <3>2
  <2>2. CASE s.op # "ReloadSystemdService"
    <3>1. UNCHANGED systemd
      BY <1>1, <2>2 DEF Tries,
           PullPodmanImage, StopSystemdService, WriteFsContainerConfigFile,
           DeleteFsContainerConfigFile, DeleteFsContainerConfig, WriteFsContainerConfigDir,
           DeleteFsContainerConfigDir, WriteFsBuildContextFile, DeleteFsBuildContextFile,
           DeleteFsBuildContext, DeletePodmanSecret, UpsertPodmanSecret, WriteFsQuadletUnitFile,
           DeleteFsQuadletUnitFile, DeletePodmanVolume,
           DeletePodmanNetwork, DeletePodmanImage, DaemonReload, ReloadSystemdService,
           StartSystemdService, Due, Remove, Exec, ExecUnit, Fails, FilesWritten, host
    <3> QED
      BY <1>1, <2>2, <3>1 DEF systemd
  <2> QED
    BY <2>1, <2>2
<1>2. CASE s.op = "DaemonReload"
  <2>1. loaded' = Generated /\ UNCHANGED status
    BY <1>2, TriedAs, NothingFails DEF DaemonReload
  <2> QED
    BY <1>2, <2>1
<1>3. CASE s.op = "StopSystemdService"
  <2>1. StopSystemdService(s)
    BY <1>3, TriedAs
  <2>2. loaded' = loaded
    BY <2>1 DEF StopSystemdService, ExecUnit, Fails, host, systemd
  <2>3. CASE ServiceStops(StoppedWith(s.unit))
    BY <1>3, <2>2, <2>3 DEF ServiceStops
  <2>4. CASE \E cannot : ExecUnit(s, cannot)
    <3>1. errs' # {} /\ status' = status
      BY <2>4 DEF ExecUnit, Fails, NotDone, host, systemd
    <3> QED
      BY <1>3, <2>2, <3>1
  <2> QED
    BY <2>1, <2>3, <2>4 DEF StopSystemdService
<1>4. CASE s.op = "StartSystemdService"
  <2>1. StartSystemdService(s)
    BY <1>4, TriedAs
  <2>2. s.unit \in Container /\ s.unit \in Unit
    BY <1>4 DEF Step, IInv, RunInv, RunTyped, Unit
  <2>3. loaded' = loaded
    BY <2>1 DEF StartSystemdService, host, systemd
  <2>4. CASE Active(s.unit) /\ UNCHANGED host
    BY <1>4, <2>3, <2>4 DEF Active, host, systemd
  <2>5. CASE CanStart(s.unit) /\ ServiceStarts(s.unit)
    <3>1. loaded[s.unit].refs \subseteq Resource
      BY <2>2, <2>5 DEF CanStart, IInv, HostInv, HostTyped, UnitFile, Maybe
    <3>2. \A u \in Unit : status'[u] = IF u = s.unit \/ u \in loaded[s.unit].refs THEN "active" ELSE status[u]
      BY <2>5 DEF ServiceStarts
    <3>3. \A c \in Container : c \in Unit /\ c \notin Resource
      BY UnitTypesDisjoint DEF Unit
    <3> QED
      BY <1>4, <2>2, <2>3, <3>1, <3>2, <3>3
  <2>6. CASE errs' = errs \cup {s.unit} /\ \E to : status' = [status EXCEPT ![s.unit] = to]
    <3>1. \A c \in Container : c # s.unit => status'[c] = status[c]
      BY <2>2, <2>6 DEF IInv, HostInv, HostTyped, Unit
    <3> QED
      BY <1>4, <2>3, <2>6, <3>1
  <2> QED
    BY <2>1, <2>4, <2>5, <2>6 DEF StartSystemdService
<1> QED
  BY <1>1, <1>2, <1>3, <1>4

\* Between its plan and its end a run takes one operation after the other from its
\* plan; all else that happens leaves the run and the disk alone.
LEMMA RunStep ==
    ASSUME NoFailures, IInv, pc # "abort", [Next]_vars, pc' = "apply", pc = "apply"
    PROVE  \/ \E s \in todo : Tries(s) /\ todo' = todo \ {s} /\ UNCHANGED <<goal, base>>
           \/ /\ UNCHANGED <<run, disk, secrets, loaded>>
              /\ (\E c \in Container : ContainerExit(c) \/ AutoRestart(c)) \/ UNCHANGED vars
<1>1. CASE ApplyStep
  <2>1. PICK s \in todo : Tries(s)
    BY <1>1 DEF ApplyStep, Finish, Tries
  <2> QED
    BY <2>1, OpTaken DEF Tries
<1>2. CASE \E in \in Inputs : Plan(in) \/ Refuse(in)
  BY <1>2 DEF Plan, Refuse
<1>3. CASE Crash \/ Reboot
  BY <1>3 DEF Crash, Reboot, Ends
<1>4. CASE \E c \in Container : ContainerExit(c) \/ AutoRestart(c)
  BY <1>4 DEF ContainerExit, AutoRestart, podman, disk
<1>5. CASE UNCHANGED vars
  BY <1>5 DEF vars, run, disk
<1> QED
  BY <1>1, <1>2, <1>3, <1>4, <1>5 DEF Next

\* No step but that of a plan starts a run, and no undisturbed run gives up.
LEMMA RunStarts ==
    ASSUME NoFailures, IInv, pc # "abort", [Next]_vars
    PROVE  /\ pc' # "abort"
           /\ pc' = "apply" => pc = "apply" \/ \E in \in Inputs : Plan(in)
           /\ pc' = "idle" => todo' = {}
<1>1. CASE ApplyStep
  <2>1. CASE Finish
    BY <2>1 DEF Finish
  <2>2. CASE \E s \in todo : Tries(s)
    <3>1. PICK s \in todo : Tries(s)
      BY <2>2
    <3>2. pc' = pc
      BY <3>1, NothingFails
         DEF Tries, Done, NotDone, Fails, PullPodmanImage, StopSystemdService,
           WriteFsContainerConfigFile,
           DeleteFsContainerConfigFile, DeleteFsContainerConfig, WriteFsContainerConfigDir,
           DeleteFsContainerConfigDir, WriteFsBuildContextFile, DeleteFsBuildContextFile,
           DeleteFsBuildContext, DeletePodmanSecret, UpsertPodmanSecret, WriteFsQuadletUnitFile,
           DeleteFsQuadletUnitFile, DeletePodmanVolume,
           DeletePodmanNetwork, DeletePodmanImage, DaemonReload, ReloadSystemdService,
           StartSystemdService, Due, Remove, Exec, ExecUnit, FilesWritten
    <3>3. pc # "idle"
      BY <3>1 DEF IInv, RunInv
    <3> QED
      BY <3>2, <3>3
  <2> QED
    BY <1>1, <2>1, <2>2 DEF ApplyStep, Tries
<1>2. CASE \E in \in Inputs : Plan(in) \/ Refuse(in)
  BY <1>2 DEF Plan, Refuse, IInv, RunInv
<1>3. CASE Crash \/ Reboot
  BY <1>3 DEF Crash, Reboot, Ends
<1>4. CASE (\E c \in Container : ContainerExit(c) \/ AutoRestart(c)) \/ UNCHANGED vars
  BY <1>4 DEF ContainerExit, AutoRestart, run, vars, IInv, RunInv, RunTyped
<1> QED
  BY <1>1, <1>2, <1>3, <1>4 DEF Next

(***************************************************************************)
(* Every difference is dealt with.                                         *)
(***************************************************************************)
LEMMA PlanIs ==
    ASSUME NoFailures, NEW in, Plan(in)
    PROVE  /\ todo' = BuildPlan(in) /\ goal' = in /\ base' = installed /\ errs' = {}
           /\ pc = "idle" /\ pc' = "apply" /\ Plannable(in)
           /\ UNCHANGED <<installed, files, dirs, secrets, images, loaded, status>>
<1>1. UNCHANGED <<installed, files, dirs, secrets, images, loaded, status>>
  BY DEF Plan, host, disk, podman, systemd
<1>2. PICK unseen \in SUBSET (Pruned(in) \cap Container) :
         /\ todo' = BuildPlan(in) \ Ops("StopSystemdService", unseen)
         /\ unseen # {} => Fault("fail")
  BY DEF Plan
<1>3. todo' = BuildPlan(in)
  BY <1>2, NothingFails DEF Ops
<1> QED
  BY <1>1, <1>3 DEF Plan

\* A plan has an operation for every difference between the host and its input, and
\* none that would undo what the input wants.
LEMMA PlanOwes ==
    ASSUME NoFailures, IInv, NEW in \in Inputs, Plan(in)
    PROVE  Owed'
<1>1. /\ todo' = BuildPlan(in) /\ goal' = in /\ base' = installed /\ PostRenderValid(in)
      /\ installed' = installed /\ files' = files /\ dirs' = dirs /\ secrets' = secrets
      /\ pc' = "apply"
  BY PlanIs DEF Plannable
<1>2. ASSUME NEW s \in todo' PROVE Licensed(s)'
  <2>1. s.op \in {"DeleteFsContainerConfigFile", "DeleteFsBuildContextFile"} =>
           in.files[s.unit][s.item] = None
    BY <1>1 DEF BuildPlan, FileOps, UnitOps, ServiceOps, Ops, ItemOps, StaleFiles
  <2>2. s.op = "DeleteFsContainerConfig" => s.unit \in Wiped(in) \cup Pruned(in)
    BY <1>1 DEF BuildPlan, FileOps, UnitOps, ServiceOps, Ops, ItemOps
  <2>3. s.op \in {"DeleteFsBuildContext", "DeleteFsQuadletUnitFile"} => s.unit \in Pruned(in)
    BY <1>1 DEF BuildPlan, FileOps, UnitOps, ServiceOps, Ops, ItemOps
  <2>4. s.op = "DeleteFsContainerConfigDir" => in.dirs[s.unit][s.item] = None
    BY <1>1 DEF BuildPlan, FileOps, UnitOps, ServiceOps, Ops, ItemOps, StaleDirs
  <2>5. s.op = "DeletePodmanSecret" => in.secrets[s.item] = None
    BY <1>1 DEF BuildPlan, FileOps, UnitOps, ServiceOps, Ops, ItemOps, StaleSecrets
  <2>6. s.op = "StartSystemdService" => s.unit \in WithLifecycle(in, {"restart", "start"})
    BY <1>1 DEF BuildPlan, FileOps, UnitOps, ServiceOps, Ops, ItemOps
  <2>7. s.op = "StartSystemdService" => in.unit[s.unit] # None /\ in.unit[s.unit].type = "running"
    BY <2>6 DEF WithLifecycle, PlanLifecycle, Containers, Desired
  <2>8. \A u \in Pruned(in) : in.unit[u] = None
    BY DEF Pruned, Stale
  <2>9. \A u \in Wiped(in) : in.files[u] = NoFiles
    BY DEF Wiped
  <2> QED
    BY <1>1, <2>1, <2>2, <2>3, <2>4, <2>5, <2>7, <2>8, <2>9 DEF Licensed
<1>3. ASSUME NEW u \in Unit, in.unit[u] # None, installed[u] # Rendered(in, u)
      PROVE  Task("WriteFsQuadletUnitFile", u, None) \in todo'
  <2>1. u \in {v \in Desired(in) : IsChanged(in, v)}
    BY <1>3 DEF Desired, IsChanged
  <2> QED
    BY <1>1, <2>1 DEF BuildPlan, UnitOps, Ops, Task
<1>4. ASSUME NEW u \in Unit, in.unit[u] = None, installed[u] # None, ~Locked(u)'
      PROVE  Task("DeleteFsQuadletUnitFile", u, None) \in todo'
  <2>1. u \in Build \/ installed[u].allowed
    BY <1>1, <1>4 DEF Locked
  <2>2. u \notin SkippedContainerReferences(in)
    BY <1>1, <1>4 DEF Locked, SkippedContainerReferences, Stale, IsUnitRemovalAllowed, Unit
  <2>3. u \in Pruned(in)
    BY <1>4, <2>1, <2>2 DEF Pruned, Stale, IsUnitRemovalAllowed
  <2> QED
    BY <1>1, <2>3 DEF BuildPlan, UnitOps, Ops, Task
<1>5. ASSUME NEW u \in Stored, NEW f \in File, in.unit[u] # None, files[u][f] # in.files[u][f]
      PROVE  IF in.files[u][f] # None
             THEN \/ Task("WriteFsContainerConfigFile", u, f) \in todo'
                  \/ Task("WriteFsBuildContextFile", u, f) \in todo'
             ELSE \/ Task("DeleteFsContainerConfigFile", u, f) \in todo'
                  \/ Task("DeleteFsBuildContextFile", u, f) \in todo'
  <2>1. u \in Containers(in) \/ u \in Builds(in)
    BY <1>5 DEF Stored, Containers, Builds, Desired, Unit, Resource
  <2>2. IF in.files[u][f] # None THEN f \in ChangedFiles(in, u) ELSE f \in StaleFiles(in, u)
    BY <1>5 DEF ChangedFiles, StaleFiles
  <2> QED
    BY <1>1, <2>1, <2>2 DEF BuildPlan, FileOps, ItemOps, Task
<1>6. ASSUME NEW c \in Container, NEW d \in Dir, in.unit[c] # None, dirs[c][d] # in.dirs[c][d]
      PROVE  IF in.dirs[c][d] # None
             THEN Task("WriteFsContainerConfigDir", c, d) \in todo'
             ELSE Task("DeleteFsContainerConfigDir", c, d) \in todo'
  <2>1. c \in Containers(in)
    BY <1>6 DEF Containers, Desired, Unit
  <2>2. IF in.dirs[c][d] # None THEN d \in ChangedDirs(in, c) ELSE d \in StaleDirs(in, c)
    BY <1>6 DEF ChangedDirs, StaleDirs
  <2> QED
    BY <1>1, <2>1, <2>2 DEF BuildPlan, FileOps, ItemOps, Task
<1>7. ASSUME NEW x \in Secret, secrets[x] # in.secrets[x]
      PROVE  IF in.secrets[x] # None
             THEN Task("UpsertPodmanSecret", None, x) \in todo'
             ELSE Task("DeletePodmanSecret", None, x) \in todo'
  <2>1. IF in.secrets[x] # None THEN x \in ChangedSecrets(in) ELSE x \in StaleSecrets(in)
    BY <1>7 DEF ChangedSecrets, StaleSecrets
  <2> QED
    BY <1>1, <2>1 DEF BuildPlan, ItemOps, Task
<1>8. \A u : Rendered(in, u) = Rendered(goal, u)'
  BY <1>1 DEF Rendered
<1>9. UnitsOwed'
  BY <1>1, <1>3, <1>4, <1>8 DEF UnitsOwed
<1>10. FilesOwed'
  BY <1>1, <1>5 DEF FilesOwed
<1>11. DirsOwed' /\ SecretsOwed'
  BY <1>1, <1>6, <1>7 DEF DirsOwed, SecretsOwed
<1>12. PostRenderValid(goal)' /\ LockedStay'
  BY <1>1 DEF PostRenderValid, Containers, Desired, LockedStay
<1> QED
  BY <1>1, <1>2, <1>9, <1>10, <1>11, <1>12 DEF Owed

\* What an operation was owed for is done once it has been tried, and nothing that
\* was done is undone.
LEMMA OwedStep ==
    ASSUME NoFailures, KeepsItsDirs, IInv, Owed, pc = "apply", goal \in Inputs,
           NEW s \in todo, Tries(s), todo' = todo \ {s}, goal' = goal, base' = base
    PROVE  UnitsOwed' /\ LockedStay' /\ FilesOwed' /\ DirsOwed' /\ SecretsOwed'
<1>1. s \in Step /\ Licensed(s) /\ PermitGiven(s)
  BY DEF Owed, IInv, RunInv, RunTyped
<1>2. UnitsOwed'
  <2>1. ASSUME NEW u \in Unit, goal.unit[u] # None, installed'[u] # Rendered(goal, u)
        PROVE  Task("WriteFsQuadletUnitFile", u, None) \in todo'
    <3>1. installed'[u] = installed[u] /\ ~(s.op = "WriteFsQuadletUnitFile" /\ s.unit = u)
      BY <1>1, <2>1, TriedUnits DEF UnitsAfter, Licensed
    <3>2. Task("WriteFsQuadletUnitFile", u, None) \in todo
      BY <2>1, <3>1 DEF Owed, UnitsOwed
    <3> QED
      BY <3>1, <3>2 DEF Task
  <2>2. ASSUME NEW u \in Unit, goal.unit[u] = None, installed'[u] # None, ~Locked(u)
        PROVE  Task("DeleteFsQuadletUnitFile", u, None) \in todo'
    <3>1. installed'[u] = installed[u] /\ ~(s.op = "DeleteFsQuadletUnitFile" /\ s.unit = u)
      BY <1>1, <2>2, TriedUnits DEF UnitsAfter, PermitGiven
    <3>2. Task("DeleteFsQuadletUnitFile", u, None) \in todo
      BY <2>2, <3>1 DEF Owed, UnitsOwed
    <3> QED
      BY <3>1, <3>2 DEF Task
  <2>3. \A u : Rendered(goal, u)' = Rendered(goal, u) /\ Locked(u)' = Locked(u)
    BY DEF Rendered, Locked
  <2> QED
    BY <2>1, <2>2, <2>3 DEF UnitsOwed
<1>3. ASSUME NEW u \in Stored, NEW f \in File, goal.unit[u] # None, files'[u][f] # goal.files[u][f]
      PROVE  IF goal.files[u][f] # None
             THEN \/ Task("WriteFsContainerConfigFile", u, f) \in todo'
                  \/ Task("WriteFsBuildContextFile", u, f) \in todo'
             ELSE \/ Task("DeleteFsContainerConfigFile", u, f) \in todo'
                  \/ Task("DeleteFsBuildContextFile", u, f) \in todo'
  <2>1. ASSUME s.unit = u, s.op \in {"DeleteFsContainerConfig", "DeleteFsBuildContext"} PROVE FALSE
    <3>1. goal.files[u] = NoFiles
      BY <1>1, <1>3, <2>1 DEF Licensed
    <3>2. files'[u][f] = None
      BY <2>1, TriedFiles DEF FilesAfter
    <3> QED
      BY <1>3, <3>1, <3>2 DEF NoFiles
  <2>2. ASSUME s.unit = u, s.item = f,
               s.op \in {"WriteFsContainerConfigFile", "WriteFsBuildContextFile",
                         "DeleteFsContainerConfigFile", "DeleteFsBuildContextFile"}
        PROVE  FALSE
    BY <1>1, <1>3, <2>2, TriedFiles DEF FilesAfter, Licensed
  <2>3. files'[u][f] = files[u][f]
    BY <2>1, <2>2, TriedFiles DEF FilesAfter
  <2> QED
    BY <1>3, <2>2, <2>3 DEF Owed, FilesOwed, Task
<1>4. ASSUME NEW c \in Container, NEW d \in Dir, goal.unit[c] # None, dirs'[c][d] # goal.dirs[c][d]
      PROVE  IF goal.dirs[c][d] # None
             THEN Task("WriteFsContainerConfigDir", c, d) \in todo'
             ELSE Task("DeleteFsContainerConfigDir", c, d) \in todo'
  <2>1. ASSUME s.unit = c, s.op = "DeleteFsContainerConfig" PROVE FALSE
    <3>1. goal.files[c] = NoFiles /\ c \in Containers(goal)
      BY <1>1, <1>4, <2>1 DEF Licensed, Containers, Desired, Unit
    <3>2. goal.dirs[c][d] = None
      BY <3>1 DEF KeepsItsDirs
    <3>3. dirs'[c][d] = None
      BY <2>1, TriedDirs DEF DirsAfter
    <3> QED
      BY <1>4, <3>2, <3>3
  <2>2. ASSUME s.unit = c, s.item = d,
               s.op \in {"WriteFsContainerConfigDir", "DeleteFsContainerConfigDir"}
        PROVE  FALSE
    BY <1>1, <1>4, <2>2, TriedDirs DEF DirsAfter, Licensed
  <2>3. dirs'[c][d] = dirs[c][d]
    BY <2>1, <2>2, TriedDirs DEF DirsAfter
  <2> QED
    BY <1>4, <2>2, <2>3 DEF Owed, DirsOwed, Task
<1>5. ASSUME NEW x \in Secret, secrets'[x] # goal.secrets[x]
      PROVE  IF goal.secrets[x] # None
             THEN Task("UpsertPodmanSecret", None, x) \in todo'
             ELSE Task("DeletePodmanSecret", None, x) \in todo'
  <2>1. ASSUME s.item = x, s.op \in {"UpsertPodmanSecret", "DeletePodmanSecret"}
        PROVE  FALSE
    BY <1>1, <1>5, <2>1, TriedSecrets DEF SecretsAfter, Licensed
  <2>2. secrets'[x] = secrets[x]
    BY <2>1, TriedSecrets DEF SecretsAfter
  <2> QED
    BY <1>5, <2>1, <2>2 DEF Owed, SecretsOwed, Task
<1>6. FilesOwed'
  BY <1>3 DEF FilesOwed
<1>7. DirsOwed' /\ SecretsOwed'
  BY <1>4, <1>5 DEF DirsOwed, SecretsOwed
<1>8. ASSUME NEW c \in Container, goal.unit[c] = None, base[c] # None, ~base[c].allowed,
             installed[c] = base[c]
      PROVE  installed'[c] = base[c]
  <2>1. c \in Unit /\ c \notin Build
    BY UnitTypesDisjoint DEF Unit, Resource
  <2> QED
    BY <1>1, <1>8, <2>1, TriedUnits DEF UnitsAfter, PermitGiven
<1>9. LockedStay'
  BY <1>8 DEF Owed, LockedStay
<1> QED
  BY <1>2, <1>6, <1>7, <1>9

\* No step leaves a difference that the rest of the plan does not deal with.
LEMMA OwedStays ==
    ASSUME NoFailures, KeepsItsDirs, IInv, Owed, [Next]_vars
    PROVE  Owed'
<1>1. pc' # "abort"
  BY RunStarts DEF Owed
<1> SUFFICES ASSUME pc' = "apply" PROVE Owed'
  BY <1>1 DEF Owed
<1>2. CASE \E in \in Inputs : Plan(in)
  BY <1>2, PlanOwes
<1>3. CASE pc = "apply"
  <2>1. CASE \E s \in todo : Tries(s) /\ todo' = todo \ {s} /\ UNCHANGED <<goal, base>>
    <3>1. PICK s \in todo : Tries(s) /\ todo' = todo \ {s} /\ UNCHANGED <<goal, base>>
      BY <2>1
    <3>2. goal \in Inputs
      BY <1>3, <3>1 DEF IInv, RunInv, RunTyped, Maybe
    <3>3. UnitsOwed' /\ LockedStay' /\ FilesOwed' /\ DirsOwed' /\ SecretsOwed'
      BY <1>3, <3>1, <3>2, OwedStep
    <3>4. PostRenderValid(goal)'
      BY <1>3, <3>1 DEF Owed, PostRenderValid, Containers, Desired
    <3>5. \A t \in todo' : Licensed(t)'
      BY <1>3, <3>1 DEF Owed, Licensed
    <3>6. goal' \in Inputs
      BY <3>1, <3>2
    <3> QED
      BY <1>1, <3>3, <3>4, <3>5, <3>6 DEF Owed
  <2>2. CASE UNCHANGED <<run, disk, secrets>>
    BY <1>3, <2>2 DEF Owed, run, disk, PostRenderValid, Containers, Desired, Licensed, UnitsOwed, LockedStay,
                      FilesOwed, DirsOwed, SecretsOwed, Rendered, Locked
  <2> QED
    BY <1>3, <2>1, <2>2, RunStep DEF Owed
<1> QED
  BY <1>2, <1>3, RunStarts DEF Owed

(***************************************************************************)
(* What systemd has been told.                                             *)
(***************************************************************************)

\* What a plan still has to do before an operation of a later kind is due.
LEMMA NothingBefore ==
    ASSUME NEW s, Tries(s), NEW t \in todo
    PROVE  ~(OpRank[t.op] < OpRank[s.op])
  BY TriedAs DEF Precedes

\* A rendered container is a whole unit, and everything it refers to is a unit of
\* the same input.
LEMMA RenderedWhole ==
    ASSUME NEW in \in Inputs, NEW u \in Unit, in.unit[u] # None
    PROVE  /\ Rendered(in, u) # None /\ Rendered(in, u).def # None
           /\ Rendered(in, u).type = in.unit[u].type /\ Rendered(in, u).refs = in.unit[u].refs
           /\ Rendered(in, u) \in UnitFile /\ in.unit[u].refs \subseteq Resource
<1>1. in.unit[u] \in UnitFile /\ in.unit[u].def # None
  BY InputsTyped, InputsWhole DEF Input, Maybe
<1>2. Rendered(in, u) \in UnitFile
  BY <1>1 DEF Rendered, UnitFile
<1>3. /\ Rendered(in, u).def = in.unit[u].def /\ Rendered(in, u).type = in.unit[u].type
      /\ Rendered(in, u).refs = in.unit[u].refs
  BY <1>1 DEF Rendered, UnitFile
<1> QED
  BY <1>1, <1>2, <1>3, NoneIsFresh DEF UnitFile

\* Writing resources before containers, and deleting containers before resources,
\* keeps every installed container's references installed.
LEMMA ClosedStays ==
    ASSUME NoFailures, NoCrashes, KeepsItsDirs, IInv, Held, Owed, Closed, [Next]_vars
    PROVE  Closed'
<1> SUFFICES ASSUME NEW c \in Container, installed'[c] # None
             PROVE  /\ installed'[c].def # None
                    /\ \A r \in installed'[c].refs : installed'[r] # None
  BY DEF Closed
<1>1. CASE installed' = installed
  BY <1>1 DEF Closed
<1>2. CASE pc = "apply" /\ \E s \in todo : Tries(s)
  <2>1. PICK s \in todo : Tries(s)
    BY <1>2
  <2>2. /\ s \in Step /\ Licensed(s) /\ PermitGiven(s) /\ PostRenderValid(goal)
        /\ goal \in Inputs /\ UnitsOwed
    BY <1>2 DEF Owed, IInv, RunInv, RunTyped, Maybe
  <2>3. UnitsAfter(s)
    BY <2>1, TriedUnits
  <2>4. c \in Unit /\ c \notin Resource /\ c \notin Build
    BY UnitTypesDisjoint DEF Unit, Resource
  <2>5. ASSUME NEW r \in Unit, installed[r] # None, installed'[r] = None
        PROVE  /\ s.op = "DeleteFsQuadletUnitFile" /\ s.unit = r /\ goal.unit[r] = None
               /\ \A u \in Unit : goal.unit[u] # None => installed[u] = Rendered(goal, u)
    <3>1. s.op = "DeleteFsQuadletUnitFile" /\ s.unit = r
      <4>1. \/ s.op = "WriteFsQuadletUnitFile" /\ s.unit = r /\ installed'[r] = Rendered(goal, r)
            \/ s.op = "DeleteFsQuadletUnitFile" /\ s.unit = r
        BY <2>3, <2>5 DEF UnitsAfter
      <4>2. CASE s.op = "WriteFsQuadletUnitFile" /\ s.unit = r /\ installed'[r] = Rendered(goal, r)
        BY <2>2, <2>5, <4>2, RenderedWhole DEF PermitGiven
      <4> QED
        BY <4>1, <4>2
    <3>2. goal.unit[r] = None
      BY <2>2, <3>1 DEF Licensed
    <3>3. \A u \in Unit : Task("WriteFsQuadletUnitFile", u, None) \notin todo
      BY <2>1, <3>1, NothingBefore DEF Task, OpRank, Order
    <3> QED
      BY <2>2, <3>1, <3>2, <3>3 DEF UnitsOwed
  <2>6. CASE s.op = "WriteFsQuadletUnitFile" /\ s.unit = c
    <3>1. goal.unit[c] # None /\ installed'[c] = Rendered(goal, c)
      BY <2>2, <2>3, <2>4, <2>6 DEF PermitGiven, UnitsAfter
    <3>2. c \in Containers(goal)
      BY <2>4, <3>1 DEF Containers, Desired
    <3>3. ASSUME NEW r \in installed'[c].refs PROVE installed'[r] # None
      <4>1. r \in Resource /\ r \in Unit /\ goal.unit[r] # None
        BY <2>2, <2>4, <3>1, <3>2, <3>3, RenderedWhole DEF PostRenderValid, Desired
      <4>2. Slot(r) < Slot(c)
        BY <2>4, <3>1, <4>1, UnitTypesDisjoint DEF Slot, Resource
      <4>3. Task("WriteFsQuadletUnitFile", r, None) \notin todo
        <5> SUFFICES ASSUME Task("WriteFsQuadletUnitFile", r, None) \in todo PROVE FALSE
          OBVIOUS
        <5>1. ~Precedes(Task("WriteFsQuadletUnitFile", r, None), s)
          BY <2>1, TriedAs
        <5> QED
          BY <2>6, <4>2, <5>1 DEF Precedes, Task
      <4>4. installed[r] = Rendered(goal, r) /\ installed[r] # None
        BY <2>2, <4>1, <4>3, RenderedWhole DEF UnitsOwed
      <4> QED
        BY <2>5, <2>6, <4>1, <4>4
    <3> QED
      BY <2>2, <2>4, <3>1, <3>3, RenderedWhole
  <2>7. CASE ~(s.op = "WriteFsQuadletUnitFile" /\ s.unit = c)
    <3>1. installed'[c] = installed[c]
      BY <2>3, <2>4, <2>7 DEF UnitsAfter
    <3>2. installed[c].refs \subseteq Resource
      BY <2>4, <3>1 DEF IInv, HostInv, HostTyped, UnitFile, Maybe
    <3>3. ASSUME NEW r \in installed[c].refs, installed'[r] = None PROVE FALSE
      <4>1. r \in Unit /\ r \in Resource /\ installed[r] # None
        BY <3>1, <3>2, <3>3 DEF Closed, Unit
      <4>2. /\ s.op = "DeleteFsQuadletUnitFile" /\ s.unit = r /\ goal.unit[r] = None
            /\ \A u \in Unit : goal.unit[u] # None => installed[u] = Rendered(goal, u)
        BY <2>5, <3>3, <4>1
      <4>3. CASE goal.unit[c] # None
        <5>1. r \in goal.unit[c].refs /\ c \in Containers(goal)
          BY <2>2, <2>4, <3>3, <4>2, <4>3, RenderedWhole DEF Containers, Desired
        <5> QED
          BY <2>2, <4>2, <5>1 DEF PostRenderValid, Desired
      <4>4. CASE goal.unit[c] = None
        <5>1. base[c] = installed[c]
          BY <1>2, <2>4, <3>1, <4>4 DEF Held
        <5>2. base[c].allowed
          BY <1>2, <2>1, <3>1, <3>3, <4>2, <4>4, <5>1 DEF Held, Deletion
        <5>3. ~Locked(c)
          <6>1. ASSUME NEW d \in Container, base[d] # None, c \in base[d].refs PROVE FALSE
            BY <2>4, <6>1 DEF IInv, RunInv, RunTyped, UnitFile, Maybe, Unit
          <6> QED
            BY <2>4, <5>2, <6>1 DEF Locked
        <5>4. Task("DeleteFsQuadletUnitFile", c, None) \in todo
          BY <2>2, <2>4, <3>1, <4>4, <5>3 DEF UnitsOwed
        <5>5. ~Precedes(Task("DeleteFsQuadletUnitFile", c, None), s)
          BY <2>1, <5>4, TriedAs
        <5>6. SweepSlot(c) < SweepSlot(r)
          BY <2>4, <4>1, UnitTypesDisjoint DEF SweepSlot, Resource
        <5> QED
          BY <4>2, <5>5, <5>6 DEF Precedes, Task
      <4> QED
        BY <4>3, <4>4
    <3> QED
      BY <3>1, <3>3 DEF Closed
  <2> QED
    BY <2>6, <2>7
<1>3. installed' = installed \/ (pc = "apply" /\ \E s \in todo : Tries(s))
  <2>1. CASE ApplyStep
    <3>1. CASE Finish
      BY <3>1 DEF Finish, host, disk
    <3>2. CASE \E s \in todo : Tries(s)
      BY <3>2 DEF Owed, IInv, RunInv, RunTyped
    <3> QED
      BY <2>1, <3>1, <3>2 DEF ApplyStep, Tries
  <2>2. CASE Crash
    BY <2>2 DEF Crash, Fault, NoCrashes
  <2>3. CASE \/ \E in \in Inputs : Plan(in) \/ Refuse(in)
             \/ Reboot \/ UNCHANGED vars
             \/ \E d \in Container : ContainerExit(d) \/ AutoRestart(d)
    BY <2>3 DEF Plan, Refuse, Reboot, ContainerExit, AutoRestart, vars, host, disk
  <2> QED
    BY <2>1, <2>2, <2>3 DEF Next
<1> QED
  BY <1>1, <1>2, <1>3

\* Generated, of the unit files there are.
LEMMA GeneratedIs == Generated = Generates(installed)
  BY DEF Generated, Generates

\* systemd is told of every change of a unit file before the run starts anything.
LEMMA SyncedStays ==
    ASSUME NoFailures, NoCrashes, IInv, Owed, Synced, [Next]_vars
    PROVE  Synced'
<1>1. CASE pc' = "apply" /\ \E in \in Inputs : Plan(in)
  <2>1. PICK in \in Inputs : Plan(in)
    BY <1>1
  <2>2. /\ todo' = BuildPlan(in) /\ base' = installed /\ loaded' = loaded /\ installed' = installed
        /\ pc = "idle"
    BY <2>1, PlanIs
  <2>3. loaded = Generates(installed)
    BY <2>2 DEF Synced
  <2>4. CASE Task("DaemonReload", None, None) \in todo'
    BY <1>1, <2>2, <2>3, <2>4 DEF Synced, Generates
  <2>5. CASE Task("DaemonReload", None, None) \notin todo'
    <3>1. {u \in Desired(in) : IsChanged(in, u)} \cup Pruned(in) = {}
      BY <2>2, <2>5, Zenon DEF BuildPlan, UnitOps, Ops, Task
    <3>2. ASSUME NEW s \in BuildPlan(in), s.op \in {"WriteFsQuadletUnitFile", "DeleteFsQuadletUnitFile"}
          PROVE  s.unit \in {u \in Desired(in) : IsChanged(in, u)} \cup Pruned(in)
      BY <3>2 DEF BuildPlan, FileOps, UnitOps, ServiceOps, Ops, ItemOps
    <3> QED
      BY <2>2, <2>3, <2>5, <3>1, <3>2 DEF Synced, Generates
  <2> QED
    BY <2>4, <2>5
<1>2. CASE pc' = "apply" /\ pc = "apply"
  <2>1. CASE \E s \in todo : Tries(s) /\ todo' = todo \ {s} /\ UNCHANGED <<goal, base>>
    <3>1. PICK s \in todo : Tries(s) /\ todo' = todo \ {s} /\ UNCHANGED <<goal, base>>
      BY <2>1
    <3>2. s \in Step
      BY DEF IInv, RunInv, RunTyped
    <3>3. CASE s.op = "DaemonReload"
      <4>1. loaded' = Generates(installed)
        BY <3>1, <3>3, TriedServices, GeneratedIs
      <4>2. installed' = installed
        BY <3>1, <3>3, TriedAs, NothingFails DEF DaemonReload, disk
      <4>3. s = Task("DaemonReload", None, None)
        BY <3>2, <3>3 DEF Step, Task
      <4>4. \A t \in todo : t.op \notin {"WriteFsQuadletUnitFile", "DeleteFsQuadletUnitFile"}
        BY <3>1, <3>3, NothingBefore DEF OpRank, Order
      <4> QED
        BY <3>1, <4>1, <4>2, <4>3, <4>4 DEF Synced, Generates
    <3>4. CASE s.op # "DaemonReload"
      <4>1. loaded' = loaded /\ s # Task("DaemonReload", None, None)
        BY <3>1, <3>4, TriedServices DEF Task
      <4>2. CASE Task("DaemonReload", None, None) \in todo
        BY <1>2, <3>1, <4>1, <4>2 DEF Synced, Generates
      <4>3. CASE Task("DaemonReload", None, None) \notin todo
        <5>1. /\ loaded = Generates(installed)
              /\ \A t \in todo : t.op \notin {"WriteFsQuadletUnitFile", "DeleteFsQuadletUnitFile"}
          BY <4>3 DEF Synced
        <5>2. \A u \in Unit : installed'[u] = installed[u]
          BY <3>1, <5>1, TriedUnits DEF UnitsAfter
        <5>3. installed' = installed
          BY <5>2, NextKeeps DEF IInv, HostInv, HostTyped
        <5> QED
          BY <3>1, <4>1, <4>3, <5>1, <5>3 DEF Synced, Generates
      <4> QED
        BY <4>2, <4>3
    <3> QED
      BY <3>3, <3>4
  <2>2. CASE UNCHANGED <<run, disk, secrets, loaded>>
    BY <2>2 DEF Synced, Generates, run, disk
  <2> QED
    BY <1>2, <2>1, <2>2, RunStep DEF Owed
<1>3. CASE pc' = "idle"
  <2>1. todo' = {}
    BY <1>3, RunStarts DEF Owed
  <2>2. CASE Reboot
    <3>1. loaded' = Generates(installed) /\ installed' = installed
      BY <2>2, GeneratedIs DEF Reboot, disk
    <3> QED
      BY <1>3, <2>1, <3>1 DEF Synced, Generates
  <2>3. CASE UNCHANGED <<loaded, installed>> /\ todo = {}
    BY <1>3, <2>1, <2>3 DEF Synced, Generates
  <2>4. Reboot \/ (UNCHANGED <<loaded, installed>> /\ todo = {})
    <3>1. CASE ApplyStep
      <4>1. CASE Finish
        BY <4>1 DEF Finish, Owed, host, disk, systemd
      <4>2. CASE \E s \in todo : Tries(s)
        <5>1. pc = "apply"
          BY <4>2 DEF Owed, IInv, RunInv, RunTyped
        <5>2. pc' = pc
          BY <4>2, NothingFails
             DEF Tries, Done, NotDone, Fails, PullPodmanImage, StopSystemdService,
               WriteFsContainerConfigFile,
               DeleteFsContainerConfigFile, DeleteFsContainerConfig, WriteFsContainerConfigDir,
               DeleteFsContainerConfigDir, WriteFsBuildContextFile, DeleteFsBuildContextFile,
               DeleteFsBuildContext, DeletePodmanSecret, UpsertPodmanSecret, WriteFsQuadletUnitFile,
               DeleteFsQuadletUnitFile, DeletePodmanVolume,
               DeletePodmanNetwork, DeletePodmanImage, DaemonReload, ReloadSystemdService,
               StartSystemdService, Due, Remove, Exec, ExecUnit, FilesWritten
        <5> QED
          BY <1>3, <5>1, <5>2
      <4> QED
        BY <3>1, <4>1, <4>2 DEF ApplyStep, Tries
    <3>2. CASE Crash
      BY <3>2 DEF Crash, Fault, NoCrashes
    <3>3. CASE \/ \E in \in Inputs : Plan(in) \/ Refuse(in)
               \/ UNCHANGED vars
               \/ \E d \in Container : ContainerExit(d) \/ AutoRestart(d)
      BY <1>3, <3>3 DEF Plan, Refuse, ContainerExit, AutoRestart, vars, run, host, disk, systemd,
                       IInv, RunInv
    <3> QED
      BY <3>1, <3>2, <3>3 DEF Next
  <2> QED
    BY <2>2, <2>3, <2>4
<1> QED
  BY <1>1, <1>2, <1>3, RunStarts, NextKeeps DEF Owed, IInv, RunInv, RunTyped

(***************************************************************************)
(* Who runs.                                                               *)
(***************************************************************************)

\* A plan leaves alone only what runs as its input wants, and stops nothing that
\* would take such a container with it.
LEMMA PlanSteadies ==
    ASSUME NoFailures, IInv, Closed, Synced, NEW in \in Inputs, Plan(in), NEW c \in Containers(in)
    PROVE  Steady(c)'
<1>1. /\ todo' = BuildPlan(in) /\ goal' = in /\ loaded' = loaded /\ status' = status
      /\ pc = "idle" /\ loaded = Generates(installed)
  BY PlanIs DEF Synced
<1>2. c \in Container /\ c \in Unit /\ in.unit[c] # None /\ c \notin Resource
  BY UnitTypesDisjoint DEF Containers, Desired
<1>3. IsRunning(c)' = IsRunning(c)
  BY <1>1 DEF IsRunning
<1>4. ASSUME in.unit[c].type = "running", PlanLifecycle(in, c) \in {"restart", "start"}
      PROVE  Steady(c)'
  <2>1. c \in WithLifecycle(in, {"restart", "start"})
    BY <1>4 DEF WithLifecycle
  <2>2. Task("StartSystemdService", c, None) \in todo'
    BY <1>1, <2>1 DEF BuildPlan, ServiceOps, Ops, Task
  <2> QED
    BY <1>1, <1>4, <2>2 DEF Steady
<1>5. ASSUME in.unit[c].type = "running", PlanLifecycle(in, c) \notin {"restart", "start"}
      PROVE  Steady(c)'
  <2>1. IsRunning(c) /\ ~NeedsRestart(in, c) /\ PlanLifecycle(in, c) \notin {"restart", "stop"}
    BY <1>5 DEF PlanLifecycle
  <2>2. installed[c] # None /\ StripRestartNeutralOptions(Rendered(in, c)) = StripRestartNeutralOptions(installed[c])
    BY <2>1 DEF NeedsRestart, MeaningfullyChanged
  <2>3. installed[c] \in UnitFile /\ Rendered(in, c) \in UnitFile
    BY <1>2, <2>2, RenderedWhole DEF IInv, HostInv, HostTyped, Maybe
  <2>4. installed[c].type = Rendered(in, c).type /\ installed[c].refs = Rendered(in, c).refs
    BY <2>2, <2>3 DEF StripRestartNeutralOptions, UnitFile
  <2>5. installed[c].type = "running" /\ installed[c].refs = in.unit[c].refs
    BY <1>2, <1>5, <2>4, RenderedWhole
  <2>6. loaded[c] = installed[c]
    BY <1>1, <1>2, <2>2 DEF Generates, Closed
  <2>7. ASSUME NEW s \in todo', s.op = "StopSystemdService", c = s.unit \/ s.unit \in loaded[c].refs
        PROVE  FALSE
    <3>1. s.unit \in StopSystemdServices(in)
      BY <1>1, <2>7 DEF BuildPlan, FileOps, UnitOps, ServiceOps, Ops, ItemOps
    <3>2. CASE s.unit = c
      <4>1. c \notin Recreated(in) /\ c \notin Pruned(in)
        BY <1>2 DEF Recreated, Pruned, Stale
      <4> QED
        BY <2>1, <3>1, <3>2, <4>1 DEF StopSystemdServices, WithLifecycle
    <3>3. CASE s.unit \in loaded[c].refs
      <4>1. s.unit \in in.unit[c].refs /\ s.unit \in Resource
        BY <1>2, <2>5, <2>6, <3>3, RenderedWhole
      <4>2. s.unit \notin Recreated(in)
        BY <2>1, <4>1 DEF NeedsRestart
      <4>3. s.unit \notin Container
        BY <4>1, UnitTypesDisjoint
      <4> QED
        BY <3>1, <4>2, <4>3 DEF StopSystemdServices, WithLifecycle, Containers
    <3> QED
      BY <2>7, <3>2, <3>3
  <2> QED
    BY <1>1, <1>2, <1>3, <1>5, <2>1, <2>2, <2>5, <2>6, <2>7 DEF Steady
<1>6. ASSUME in.unit[c].type = "stopped", IsRunning(c)
      PROVE  Task("StopSystemdService", c, None) \in todo'
  <2>1. PlanLifecycle(in, c) = "stop"
    BY <1>6 DEF PlanLifecycle
  <2>2. c \in StopSystemdServices(in)
    BY <2>1 DEF StopSystemdServices, WithLifecycle
  <2> QED
    BY <1>1, <2>2 DEF BuildPlan, ServiceOps, Ops, Task
<1> QED
  BY <1>1, <1>3, <1>4, <1>5, <1>6 DEF Steady

\* Once the unit files are written and systemd told of them, it has the container of
\* the input.
LEMMA LoadedAsWanted ==
    ASSUME NoFailures, IInv, Owed, Closed, Synced, pc = "apply", NEW c \in Containers(goal),
           NEW s \in todo, Tries(s), s.op \in {"DaemonReload", "StartSystemdService"}
    PROVE  /\ installed[c] = Rendered(goal, c)
           /\ Generates(installed)[c] = Rendered(goal, c)
           /\ s.op = "StartSystemdService" => loaded[c] = Rendered(goal, c)
           /\ \A t \in todo : t.op # "StopSystemdService"
<1>1. c \in Container /\ c \in Unit /\ goal.unit[c] # None /\ goal \in Inputs
  BY DEF Containers, Desired, IInv, RunInv, RunTyped, Maybe
<1>2. \A t \in todo : t.op \notin {"StopSystemdService", "WriteFsQuadletUnitFile"}
  BY NothingBefore DEF OpRank, Order
<1>3. installed[c] = Rendered(goal, c)
  BY <1>1, <1>2 DEF Owed, UnitsOwed, Task
<1>4. Generates(installed)[c] = Rendered(goal, c)
  BY <1>1, <1>3, RenderedWhole DEF Generates, Closed
<1>5. ASSUME s.op = "StartSystemdService" PROVE loaded = Generates(installed)
  <2>1. Task("DaemonReload", None, None) \notin todo
    BY <1>5, NothingBefore DEF Task, OpRank, Order
  <2> QED
    BY <2>1 DEF Synced
<1> QED
  BY <1>2, <1>3, <1>4, <1>5

\* An operation of the plan leaves every container as it should be, or has failed.
LEMMA SteadyStep ==
    ASSUME NoFailures, IInv, Owed, Closed, Synced, pc = "apply",
           NEW s \in todo, Tries(s), todo' = todo \ {s}, goal' = goal, errs' = {},
           NEW c \in Containers(goal), Steady(c)
    PROVE  Steady(c)'
<1>1. c \in Container /\ c \in Unit /\ goal.unit[c] # None /\ goal \in Inputs /\ s \in Step
  BY DEF Containers, Desired, IInv, RunInv, RunTyped, Maybe
<1>2. c \notin Resource
  BY <1>1, UnitTypesDisjoint
<1>3. Rendered(goal, c) # None /\ Rendered(goal, c).type = goal.unit[c].type
  BY <1>1, RenderedWhole
<1>4. ASSUME goal.unit[c].type = "running", s = Task("StartSystemdService", c, None)
      PROVE  Steady(c)'
  <2>1. s.op = "StartSystemdService" /\ s.unit = c
    BY <1>4 DEF Task
  <2>2. status'[c] = "active" /\ loaded' = loaded
    BY <2>1, TriedServices
  <2>3. loaded[c] = Rendered(goal, c) /\ \A t \in todo : t.op # "StopSystemdService"
    BY <2>1, LoadedAsWanted
  <2> QED
    BY <1>3, <1>4, <2>2, <2>3 DEF Steady, IsRunning
<1>5. ASSUME goal.unit[c].type = "running", s # Task("StartSystemdService", c, None),
             Task("StartSystemdService", c, None) \in todo
      PROVE  Steady(c)'
  BY <1>5 DEF Steady
<1>6. ASSUME goal.unit[c].type = "running", Task("StartSystemdService", c, None) \notin todo
      PROVE  Steady(c)'
  <2>1. /\ IsRunning(c) /\ loaded[c] # None /\ loaded[c].type = "running"
        /\ \A t \in todo : t.op = "StopSystemdService" => c # t.unit /\ t.unit \notin loaded[c].refs
    BY <1>6 DEF Steady
  <2>2. IsRunning(c)'
    <3>1. CASE s.op = "StopSystemdService"
      <4>1. c \notin StoppedWith(s.unit)
        BY <2>1, <3>1 DEF StoppedWith
      <4> QED
        BY <1>1, <2>1, <3>1, <4>1, TriedServices DEF IsRunning
    <3>2. CASE s.op = "StartSystemdService"
      <4>1. s.unit # c
        BY <1>1, <1>6, <3>2 DEF Step, Task
      <4> QED
        BY <1>1, <2>1, <3>2, <4>1, TriedServices DEF IsRunning
    <3>3. CASE s.op \notin {"StopSystemdService", "StartSystemdService"}
      BY <2>1, <3>3, TriedServices DEF IsRunning
    <3> QED
      BY <3>1, <3>2, <3>3
  <2>3. CASE s.op = "DaemonReload"
    <3>1. loaded'[c] = Rendered(goal, c) /\ \A t \in todo : t.op # "StopSystemdService"
      BY <2>3, LoadedAsWanted, TriedServices, GeneratedIs
    <3> QED
      BY <1>3, <1>6, <2>2, <3>1 DEF Steady
  <2>4. CASE s.op # "DaemonReload"
    <3>1. loaded' = loaded
      BY <2>4, TriedServices
    <3> QED
      BY <1>6, <2>1, <2>2, <3>1 DEF Steady
  <2> QED
    BY <2>3, <2>4
<1>7. ASSUME goal.unit[c].type = "stopped" PROVE Steady(c)'
  <2>1. CASE s = Task("StopSystemdService", c, None)
    <3>1. s.op = "StopSystemdService" /\ s.unit = c
      BY <2>1 DEF Task
    <3>2. status'[c] = "inactive"
      BY <1>1, <3>1, TriedServices DEF StoppedWith
    <3> QED
      BY <1>7, <3>2 DEF Steady, IsRunning
  <2>2. CASE s # Task("StopSystemdService", c, None) /\ Task("StopSystemdService", c, None) \in todo
    BY <1>7, <2>2 DEF Steady
  <2>3. CASE Task("StopSystemdService", c, None) \notin todo
    <3>1. ~IsRunning(c)
      BY <1>7, <2>3 DEF Steady
    <3>2. s.op = "StartSystemdService" => s.unit # c
      BY <1>7 DEF Owed, Licensed
    <3>3. ~IsRunning(c)'
      <4>1. CASE s.op = "StopSystemdService"
        BY <1>1, <3>1, <4>1, TriedServices DEF IsRunning
      <4>2. CASE s.op = "StartSystemdService"
        BY <1>1, <3>1, <3>2, <4>2, TriedServices DEF IsRunning
      <4>3. CASE s.op \notin {"StopSystemdService", "StartSystemdService"}
        BY <3>1, <4>3, TriedServices DEF IsRunning
      <4> QED
        BY <4>1, <4>2, <4>3
    <3> QED
      BY <1>7, <3>3 DEF Steady
  <2> QED
    BY <2>1, <2>2, <2>3
<1>8. goal.unit[c].type \notin {"running", "stopped"} => Steady(c)'
  BY DEF Steady
<1> QED
  BY <1>4, <1>5, <1>6, <1>7, <1>8

\* What exits of itself and is wanted is restarted by systemd, and nothing that is to
\* be down comes up of itself.
LEMMA SteadyHost ==
    ASSUME IInv, NEW d \in Container, ContainerExit(d) \/ AutoRestart(d),
           NEW c \in Containers(goal), Steady(c)
    PROVE  Steady(c)'
<1>1. c \in Container /\ c \in Unit /\ c \notin Resource
  BY UnitTypesDisjoint DEF Containers, Desired
<1>2. UNCHANGED <<loaded, todo, goal>>
  BY DEF ContainerExit, AutoRestart, run
<1>3. CASE ContainerExit(d)
  <2>1. d # c => status'[c] = status[c]
    BY <1>1, <1>3 DEF ContainerExit, IInv, HostInv, HostTyped, Unit
  <2>2. d = c /\ loaded[c] # None /\ loaded[c].type = "running" => status'[c] = "activating"
    BY <1>1, <1>3 DEF ContainerExit, IInv, HostInv, HostTyped, Unit
  <2>3. d = c => IsRunning(c)
    BY <1>3 DEF ContainerExit, Active, IsRunning
  <2> QED
    BY <1>2, <2>1, <2>2, <2>3 DEF Steady, IsRunning
<1>4. CASE AutoRestart(d)
  <2>1. loaded[d].refs \subseteq Resource
    BY <1>4 DEF AutoRestart, CanStart, IInv, HostInv, HostTyped, Unit, UnitFile, Maybe
  <2>2. IsRunning(c)' = IsRunning(c)
    BY <1>1, <1>4, <2>1 DEF AutoRestart, ServiceStarts, IsRunning
  <2> QED
    BY <1>2, <2>2 DEF Steady
<1> QED
  BY <1>3, <1>4

\* Every step leaves a container the input wants running alive or still to be started.
LEMMA LivelyStays ==
    ASSUME NoFailures, IInv, Owed, Closed, Synced, Lively, [Next]_vars
    PROVE  Lively'
<1> SUFFICES ASSUME pc' = "apply", errs' = {}, NEW c \in Containers(goal)' PROVE Steady(c)'
  BY DEF Lively
<1>1. CASE \E in \in Inputs : Plan(in)
  <2>1. PICK in \in Inputs : Plan(in)
    BY <1>1
  <2>2. c \in Containers(in)
    BY <2>1, PlanIs DEF Containers, Desired
  <2> QED
    BY <2>1, <2>2, PlanSteadies
<1>2. CASE pc = "apply"
  <2>1. errs = {}
    BY <1>2, ErrsGrow
  <2>2. CASE \E s \in todo : Tries(s) /\ todo' = todo \ {s} /\ UNCHANGED <<goal, base>>
    <3>1. c \in Containers(goal)
      BY <2>2 DEF Containers, Desired
    <3> QED
      BY <1>2, <2>1, <2>2, <3>1, SteadyStep DEF Lively
  <2>3. CASE UNCHANGED run /\ \E d \in Container : ContainerExit(d) \/ AutoRestart(d)
    <3>1. c \in Containers(goal)
      BY <2>3 DEF Containers, Desired, run
    <3> QED
      BY <1>2, <2>1, <2>3, <3>1, SteadyHost DEF Lively
  <2>4. CASE UNCHANGED vars
    BY <1>2, <2>1, <2>4 DEF vars, Lively, Containers, Desired, Steady, IsRunning
  <2> QED
    BY <1>2, <2>2, <2>3, <2>4, RunStep DEF Owed
<1> QED
  BY <1>1, <1>2, RunStarts DEF Owed

(***************************************************************************)
(* A run that succeeds leaves nothing to do.                               *)
(***************************************************************************)
LEMMA NothingOwed ==
    ASSUME IInv, Held, Pulled, SInv, Succeeding
    PROVE  BuildPlan(goal) = {} /\ Plannable(goal)
<1>1. pc = "apply" /\ todo = {} /\ errs = {} /\ goal \in Inputs /\ PostRenderValid(goal)
  BY DEF Succeeding, SInv, Owed
<1>2. \A u \in Desired(goal) : installed[u] = Rendered(goal, u)
  BY <1>1 DEF SInv, Owed, UnitsOwed, Desired
<1>3. \A u \in Desired(goal) : ~IsChanged(goal, u) /\ ~MeaningfullyChanged(goal, u)
  BY <1>2 DEF IsChanged, MeaningfullyChanged
<1>4. \A u \in Desired(goal) \cap Stored : ChangedFiles(goal, u) = {} /\ StaleFiles(goal, u) = {}
  BY <1>1 DEF SInv, Owed, FilesOwed, Desired, ChangedFiles, StaleFiles
<1>5. \A c \in Containers(goal) : ChangedDirs(goal, c) = {} /\ StaleDirs(goal, c) = {}
  BY <1>1 DEF SInv, Owed, DirsOwed, Desired, Containers, ChangedDirs, StaleDirs
<1>6. ChangedSecrets(goal) = {} /\ StaleSecrets(goal) = {}
  BY <1>1 DEF SInv, Owed, SecretsOwed, ChangedSecrets, StaleSecrets
<1>7. MissingImages(goal) = {}
  BY <1>1 DEF Pulled, MissingImages
<1>8. Containers(goal) \subseteq Desired(goal) \cap Stored /\ Builds(goal) \subseteq Desired(goal) \cap Stored
  BY DEF Containers, Builds, Stored
<1>9. Recreated(goal) = {}
  <2>1. ASSUME NEW r \in Recreated(goal) PROVE FALSE
    <3>1. r \in Desired(goal) /\ (r \in Build => ~FilesDiffer(goal, r))
      BY <1>4 DEF Recreated, FilesDiffer, Stored
    <3> QED
      BY <1>3, <2>1, <3>1 DEF Recreated
  <2> QED
    BY <2>1
<1>10. Pruned(goal) = {}
  <2> SUFFICES ASSUME NEW u \in Pruned(goal) PROVE FALSE
    OBVIOUS
  <2>1. u \in Unit /\ installed[u] # None /\ goal.unit[u] = None /\ (u \in Build \/ installed[u].allowed)
    BY DEF Pruned, Stale, IsUnitRemovalAllowed
  <2>2. installed[u] = base[u] /\ Locked(u)
    BY <1>1, <2>1 DEF Held, SInv, Owed, UnitsOwed
  <2>3. PICK c \in Container : /\ goal.unit[c] = None /\ base[c] # None
                               /\ ~base[c].allowed /\ u \in base[c].refs
    BY <2>1, <2>2 DEF Locked
  <2>4. installed[c] = base[c]
    BY <1>1, <2>3 DEF SInv, Owed, LockedStay
  <2>5. u \in SkippedContainerReferences(goal)
    BY <2>3, <2>4 DEF SkippedContainerReferences, Stale, IsUnitRemovalAllowed, Unit
  <2> QED
    BY <2>5 DEF Pruned
<1>11. \A c \in Containers(goal) : PlanLifecycle(goal, c) = "none"
  <2> SUFFICES ASSUME NEW c \in Containers(goal) PROVE PlanLifecycle(goal, c) = "none"
    OBVIOUS
  <2>1. installed[c] # None
    BY <1>1, <1>2, RenderedWhole DEF Containers, Desired
  <2>2. ~NeedsRestart(goal, c)
    BY <1>3, <1>4, <1>5, <1>6, <1>8, <1>9, <2>1 DEF NeedsRestart, FilesDiffer
  <2>3. /\ goal.unit[c].type = "running" => IsRunning(c)
        /\ goal.unit[c].type = "stopped" => ~IsRunning(c)
    BY <1>1 DEF SInv, Lively, Steady
  <2> QED
    BY <1>5, <2>2, <2>3 DEF PlanLifecycle
<1>12. \A actions : "none" \notin actions => WithLifecycle(goal, actions) = {}
  BY <1>11 DEF WithLifecycle
<1>13. FileOps(goal) = {}
  <2>1. Wiped(goal) = {}
    <3> SUFFICES ASSUME NEW c \in Wiped(goal) PROVE FALSE
      OBVIOUS
    <3>1. c \in Containers(goal) /\ goal.files[c] = NoFiles /\ files[c] # NoFiles
      BY DEF Wiped
    <3>2. files[c] \in FileMap
      BY <3>1 DEF IInv, HostInv, HostTyped, Containers, Stored
    <3>3. PICK f \in File : files[c][f] # None
      BY <3>1, <3>2 DEF NoFiles, FileMap
    <3>4. f \in StaleFiles(goal, c)
      BY <3>1, <3>3 DEF StaleFiles, NoFiles
    <3> QED
      BY <1>4, <1>8, <3>1, <3>4
  <2> QED
    BY <1>4, <1>5, <1>8, <1>10, <2>1 DEF FileOps, ItemOps, Ops
<1>14. UnitOps(goal) = {}
  BY <1>3, <1>9, <1>10 DEF UnitOps, Ops, Reclaimed
<1>15. ServiceOps(goal) = {}
  BY <1>9, <1>10, <1>12 DEF ServiceOps, StopSystemdServices, Ops
<1>16. BuildPlan(goal) = {}
  BY <1>6, <1>7, <1>13, <1>14, <1>15 DEF BuildPlan, ItemOps
<1>17. Plannable(goal)
  BY <1>1, <1>3 DEF Plannable, VolumeChangeRefused
<1> QED
  BY <1>16, <1>17

\* Applying the input of a run that succeeded again plans nothing, for any units,
\* files and inputs, through reboots and exits, where no operation fails of itself,
\* no run is cut short, and no input drops the last config file of a container that
\* has configDirs.
THEOREM OkRunSettles ==
    ASSUME NoFailures, NoCrashes, KeepsItsDirs
    PROVE  Spec => []OkRunIsIdempotent
<1>1. Init => Held /\ Pulled /\ SInv
  <2> SUFFICES ASSUME Init PROVE Held /\ Pulled /\ SInv
    OBVIOUS
  <2>1. Held /\ Pulled /\ Owed /\ Lively
    BY DEF Init, Held, Pulled, Owed, Lively
  <2>2. \A c \in Container : installed[c] = None
    BY DEF Init, Unit
  <2>3. Generates(installed) = [u \in Unit |-> None]
    BY DEF Init, Generates
  <2>4. Closed
    BY <2>2 DEF Closed
  <2>5. Synced
    BY <2>3 DEF Init, Synced
  <2> QED
    BY <2>1, <2>4, <2>5 DEF SInv
<1>2. IInv /\ Held /\ SInv /\ [Next]_vars => SInv'
  BY OwedStays, ClosedStays, SyncedStays, LivelyStays DEF SInv
<1>3. IInv /\ Held /\ Pulled /\ SInv => OkRunIsIdempotent
  BY NothingOwed DEF OkRunIsIdempotent
<1> QED
  BY <1>1, <1>2, <1>3, HeldStays, PulledStays, Invariance, PTL DEF Spec

\* With nothing left to do the disk is that of the input.
LEMMA NothingOwedOnDisk ==
    ASSUME IInv, Held, Owed, pc = "apply", todo = {}
    PROVE  OnDisk(goal)
<1>1. goal \in Input
  BY InputsTyped DEF Owed
<1>2. \A u \in Desired(goal) : installed[u] = Rendered(goal, u)
  BY DEF Owed, UnitsOwed, Desired
<1>3. \A u \in Desired(goal) \cap Stored : files[u] = goal.files[u]
  <2> SUFFICES ASSUME NEW u \in Desired(goal) \cap Stored PROVE files[u] = goal.files[u]
    OBVIOUS
  <2>1. files[u] \in FileMap /\ goal.files[u] \in FileMap
    BY <1>1 DEF IInv, HostInv, HostTyped, Input
  <2>2. \A f \in File : files[u][f] = goal.files[u][f]
    BY DEF Owed, FilesOwed, Desired
  <2> QED
    BY <2>1, <2>2 DEF FileMap
<1>4. \A c \in Containers(goal) : dirs[c] = goal.dirs[c]
  <2> SUFFICES ASSUME NEW c \in Containers(goal) PROVE dirs[c] = goal.dirs[c]
    OBVIOUS
  <2>1. dirs[c] \in DirMap /\ goal.dirs[c] \in DirMap
    BY <1>1 DEF IInv, HostInv, HostTyped, Input, Containers
  <2>2. \A d \in Dir : dirs[c][d] = goal.dirs[c][d]
    BY DEF Owed, DirsOwed, Desired, Containers
  <2> QED
    BY <2>1, <2>2 DEF DirMap
<1>5. secrets = goal.secrets
  BY <1>1 DEF Owed, SecretsOwed, IInv, HostInv, HostTyped, Input
<1>6. ASSUME NEW u \in Unit \ Desired(goal), installed[u] # None PROVE Kept(goal, u)
  <2>1. goal.unit[u] = None /\ installed[u] = base[u] /\ Locked(u)
    BY <1>6 DEF Held, Owed, UnitsOwed, Desired
  <2>2. CASE \E c \in Container : /\ goal.unit[c] = None /\ base[c] # None
                                  /\ ~base[c].allowed /\ u \in base[c].refs
    BY <2>2 DEF Owed, LockedStay, Kept
  <2> QED
    BY <2>1, <2>2 DEF Locked, Kept
<1> QED
  BY <1>2, <1>3, <1>4, <1>5, <1>6 DEF OnDisk

\* A run that succeeds has brought the disk and the secrets to its input, for any
\* units, files and inputs and whatever earlier runs that died left of them, where
\* no operation fails of itself and no input drops the last config file of a
\* container that has configDirs.
THEOREM OkRunRepairs ==
    ASSUME NoFailures, KeepsItsDirs
    PROVE  Spec => []OkRunRepairsDisk
<1>1. Init => Held /\ Owed
  BY DEF Init, Held, Owed
<1>2. IInv /\ Held /\ Owed => OkRunRepairsDisk
  BY NothingOwedOnDisk DEF OkRunRepairsDisk, Succeeding
<1>3. IInv /\ Owed /\ [Next]_vars => Owed'
  BY OwedStays
<1> QED
  BY <1>1, <1>2, <1>3, HeldStays, Invariance, PTL DEF Spec

(***************************************************************************)
(* A run beside another one on the same host.                              *)
(***************************************************************************)

\* A container that some input drops is one no input locks.
LocksAreKept ==
    \A c \in Container :
        \/ \A in \in Inputs : in.unit[c] # None
        \/ \A in \in Inputs : in.unit[c] # None => in.unit[c].allowed

\* The unit files are those of inputs.
FromInputs ==
    \A u \in Unit : \/ installed[u] = None
                    \/ \E in \in Inputs : in.unit[u] # None /\ installed[u] = Rendered(in, u)

\* The run does nothing that its input does not want.
Sound == pc # "abort" /\ (pc = "apply" => goal \in Inputs /\ \A s \in todo : Licensed(s))

\* Every difference of the disk and the secrets from an input is the matter of one of
\* the operations ops, whichever run they belong to.
Settled(g, ops, ins, fs, ds, ss) ==
    /\ \A u \in Unit :
          IF g.unit[u] # None
          THEN ins[u] = Rendered(g, u) \/ Task("WriteFsQuadletUnitFile", u, None) \in ops
          ELSE \/ ins[u] = None \/ (u \notin Build /\ ~ins[u].allowed)
               \/ Task("DeleteFsQuadletUnitFile", u, None) \in ops
    /\ \A u \in Stored : \A f \in File : g.unit[u] # None =>
          \/ fs[u][f] = g.files[u][f]
          \/ IF g.files[u][f] # None
             THEN \/ Task("WriteFsContainerConfigFile", u, f) \in ops
                  \/ Task("WriteFsBuildContextFile", u, f) \in ops
             ELSE \/ Task("DeleteFsContainerConfigFile", u, f) \in ops
                  \/ Task("DeleteFsBuildContextFile", u, f) \in ops
    /\ \A c \in Container : \A d \in Dir : g.unit[c] # None =>
          \/ ds[c][d] = g.dirs[c][d]
          \/ IF g.dirs[c][d] # None
             THEN Task("WriteFsContainerConfigDir", c, d) \in ops
             ELSE Task("DeleteFsContainerConfigDir", c, d) \in ops
    /\ \A x \in Secret :
          \/ ss[x] = g.secrets[x]
          \/ IF g.secrets[x] # None
             THEN Task("UpsertPodmanSecret", None, x) \in ops
             ELSE Task("DeletePodmanSecret", None, x) \in ops

\* A plan deals with every difference it finds, whatever the other run leaves to do.
LEMMA PlanSettles ==
    ASSUME NoFailures, LocksAreKept, IInv, FromInputs, NEW in \in Inputs, Plan(in), NEW ops
    PROVE  /\ Sound' /\ goal' = in
           /\ Settled(in, todo' \cup ops, installed', files', dirs', secrets')
<1>1. /\ todo' = BuildPlan(in) /\ goal' = in /\ base' = installed
      /\ installed' = installed /\ files' = files /\ dirs' = dirs /\ secrets' = secrets
      /\ pc' = "apply"
  BY PlanIs
<1>2. Owed'
  BY PlanOwes
<1>3. \A u : Rendered(in, u) = Rendered(goal, u)'
  BY <1>1 DEF Rendered
<1>4. ASSUME NEW c \in Container, in.unit[c] = None, installed[c] # None, ~installed[c].allowed
      PROVE  FALSE
  <2>1. c \in Unit
    BY DEF Unit
  <2>2. PICK in2 \in Inputs : in2.unit[c] # None /\ installed[c] = Rendered(in2, c)
    BY <1>4, <2>1 DEF FromInputs
  <2>3. installed[c].allowed = in2.unit[c].allowed
    BY <1>4, <2>1, <2>2, InputsTyped DEF Rendered, Input, UnitFile, Maybe
  <2> QED
    BY <1>4, <2>2, <2>3 DEF LocksAreKept
<1>5. ASSUME NEW u \in Unit, in.unit[u] # None, installed'[u] # Rendered(in, u)
      PROVE  Task("WriteFsQuadletUnitFile", u, None) \in todo'
  BY <1>1, <1>2, <1>3, <1>5 DEF Owed, UnitsOwed
<1>6. ASSUME NEW u \in Unit, in.unit[u] = None, installed'[u] # None,
             u \in Build \/ installed'[u].allowed
      PROVE  Task("DeleteFsQuadletUnitFile", u, None) \in todo'
  <2>1. ~Locked(u)'
    BY <1>1, <1>4, <1>6 DEF Locked
  <2> QED
    BY <1>1, <1>2, <1>6, <2>1 DEF Owed, UnitsOwed
<1>7. FilesOwed' /\ DirsOwed' /\ SecretsOwed'
  BY <1>1, <1>2 DEF Owed
<1>8. Settled(in, todo' \cup ops, installed', files', dirs', secrets')
  BY <1>1, <1>5, <1>6, <1>7 DEF Settled, FilesOwed, DirsOwed, SecretsOwed
<1> QED
  BY <1>1, <1>2, <1>8 DEF Sound, Owed

\* What is settled stays settled by every operation of a run with the same input.
LEMMA SettledStep ==
    ASSUME NoFailures, KeepsItsDirs, IInv, Sound, pc = "apply", NEW s \in todo, Tries(s),
           todo' = todo \ {s}, NEW ops,
           Settled(goal, todo \cup ops, installed, files, dirs, secrets)
    PROVE  Settled(goal, todo' \cup ops, installed', files', dirs', secrets')
<1>1. s \in Step /\ Licensed(s) /\ PermitGiven(s) /\ goal \in Inputs
  BY DEF Sound, IInv, RunInv, RunTyped
<1>2. \A t \in todo \cup ops : t # s => t \in todo' \cup ops
  OBVIOUS
<1>3. ASSUME NEW u \in Unit, goal.unit[u] # None, installed'[u] # Rendered(goal, u)
      PROVE  Task("WriteFsQuadletUnitFile", u, None) \in todo' \cup ops
  <2>1. installed'[u] = installed[u] /\ ~(s.op = "WriteFsQuadletUnitFile" /\ s.unit = u)
    BY <1>1, <1>3, TriedUnits DEF UnitsAfter, Licensed
  <2>2. Task("WriteFsQuadletUnitFile", u, None) \in todo \cup ops
    BY <1>3, <2>1 DEF Settled
  <2> QED
    BY <1>2, <2>1, <2>2 DEF Task
<1>4. ASSUME NEW u \in Unit, goal.unit[u] = None, installed'[u] # None,
             u \in Build \/ installed'[u].allowed
      PROVE  Task("DeleteFsQuadletUnitFile", u, None) \in todo' \cup ops
  <2>1. installed'[u] = installed[u] /\ ~(s.op = "DeleteFsQuadletUnitFile" /\ s.unit = u)
    BY <1>1, <1>4, TriedUnits DEF UnitsAfter, PermitGiven
  <2>2. Task("DeleteFsQuadletUnitFile", u, None) \in todo \cup ops
    BY <1>4, <2>1 DEF Settled
  <2> QED
    BY <1>2, <2>1, <2>2 DEF Task
<1>5. ASSUME NEW u \in Stored, NEW f \in File, goal.unit[u] # None, files'[u][f] # goal.files[u][f]
      PROVE  IF goal.files[u][f] # None
             THEN \/ Task("WriteFsContainerConfigFile", u, f) \in todo' \cup ops
                  \/ Task("WriteFsBuildContextFile", u, f) \in todo' \cup ops
             ELSE \/ Task("DeleteFsContainerConfigFile", u, f) \in todo' \cup ops
                  \/ Task("DeleteFsBuildContextFile", u, f) \in todo' \cup ops
  <2>1. ASSUME s.unit = u, s.op \in {"DeleteFsContainerConfig", "DeleteFsBuildContext"} PROVE FALSE
    <3>1. goal.files[u] = NoFiles
      BY <1>1, <1>5, <2>1 DEF Licensed
    <3>2. files'[u][f] = None
      BY <2>1, TriedFiles DEF FilesAfter
    <3> QED
      BY <1>5, <3>1, <3>2 DEF NoFiles
  <2>2. ASSUME s.unit = u, s.item = f,
               s.op \in {"WriteFsContainerConfigFile", "WriteFsBuildContextFile",
                         "DeleteFsContainerConfigFile", "DeleteFsBuildContextFile"}
        PROVE  FALSE
    BY <1>1, <1>5, <2>2, TriedFiles DEF FilesAfter, Licensed
  <2>3. files'[u][f] = files[u][f]
    BY <2>1, <2>2, TriedFiles DEF FilesAfter
  <2> QED
    BY <1>2, <1>5, <2>2, <2>3 DEF Settled, Task
<1>6. ASSUME NEW c \in Container, NEW d \in Dir, goal.unit[c] # None, dirs'[c][d] # goal.dirs[c][d]
      PROVE  IF goal.dirs[c][d] # None
             THEN Task("WriteFsContainerConfigDir", c, d) \in todo' \cup ops
             ELSE Task("DeleteFsContainerConfigDir", c, d) \in todo' \cup ops
  <2>1. ASSUME s.unit = c, s.op = "DeleteFsContainerConfig" PROVE FALSE
    <3>1. goal.files[c] = NoFiles /\ c \in Containers(goal)
      BY <1>1, <1>6, <2>1 DEF Licensed, Containers, Desired, Unit
    <3>2. goal.dirs[c][d] = None
      BY <1>1, <3>1 DEF KeepsItsDirs
    <3>3. dirs'[c][d] = None
      BY <2>1, TriedDirs DEF DirsAfter
    <3> QED
      BY <1>6, <3>2, <3>3
  <2>2. ASSUME s.unit = c, s.item = d,
               s.op \in {"WriteFsContainerConfigDir", "DeleteFsContainerConfigDir"}
        PROVE  FALSE
    BY <1>1, <1>6, <2>2, TriedDirs DEF DirsAfter, Licensed
  <2>3. dirs'[c][d] = dirs[c][d]
    BY <2>1, <2>2, TriedDirs DEF DirsAfter
  <2> QED
    BY <1>2, <1>6, <2>2, <2>3 DEF Settled, Task
<1>7. ASSUME NEW x \in Secret, secrets'[x] # goal.secrets[x]
      PROVE  IF goal.secrets[x] # None
             THEN Task("UpsertPodmanSecret", None, x) \in todo' \cup ops
             ELSE Task("DeletePodmanSecret", None, x) \in todo' \cup ops
  <2>1. ASSUME s.item = x, s.op \in {"UpsertPodmanSecret", "DeletePodmanSecret"}
        PROVE  FALSE
    BY <1>1, <1>7, <2>1, TriedSecrets DEF SecretsAfter, Licensed
  <2>2. secrets'[x] = secrets[x]
    BY <2>1, TriedSecrets DEF SecretsAfter
  <2> QED
    BY <1>2, <1>7, <2>1, <2>2 DEF Settled, Task
<1> QED
  BY <1>3, <1>4, <1>5, <1>6, <1>7 DEF Settled

\* So it is by every step of that run until its end.
LEMMA BesideStep ==
    ASSUME NoFailures, KeepsItsDirs, IInv, Sound, ApplyStep
    PROVE  /\ pc = "apply" /\ Sound' /\ goal' = goal
           /\ \A ops : Settled(goal, todo \cup ops, installed, files, dirs, secrets) =>
                          Settled(goal, todo' \cup ops, installed', files', dirs', secrets')
<1>1. CASE Finish
  <2>1. pc = "apply" /\ todo = {} /\ todo' = {} /\ pc' = "idle" /\ goal' = goal
    BY <1>1 DEF Finish, Sound
  <2>2. UNCHANGED <<installed, files, dirs, secrets>>
    BY <1>1 DEF Finish, host, disk, podman
  <2> QED
    BY <2>1, <2>2 DEF Sound
<1>2. CASE \E s \in todo : Tries(s)
  <2>1. PICK s \in todo : Tries(s)
    BY <1>2
  <2>2. pc = "apply"
    BY <2>1 DEF Sound, IInv, RunInv, RunTyped
  <2>3. todo' = todo \ {s} /\ goal' = goal /\ pc' # "abort"
    <3>1. pc' # "abort"
      BY <2>2, RunStarts DEF Next
    <3> QED
      BY <2>1, <3>1, OpTaken DEF Tries
  <2>4. Sound'
    BY <2>2, <2>3 DEF Sound, Licensed
  <2> QED
    BY <2>1, <2>2, <2>3, <2>4, SettledStep
<1> QED
  BY <1>1, <1>2 DEF ApplyStep, Tries

\* It only writes what its input has.
LEMMA FromInputsStays ==
    ASSUME NoFailures, IInv, FromInputs, ApplyStep
    PROVE  FromInputs'
<1>1. CASE Finish
  BY <1>1 DEF Finish, host, disk, FromInputs, Rendered
<1>2. CASE \E s \in todo : Tries(s)
  <2>1. PICK s \in todo : Tries(s)
    BY <1>2
  <2>2. PermitGiven(s) /\ goal \in Inputs
    BY <2>1 DEF IInv, RunInv, RunTyped, Maybe
  <2>3. ASSUME NEW u \in Unit
        PROVE  \/ installed'[u] = None
               \/ \E in \in Inputs : in.unit[u] # None /\ installed'[u] = Rendered(in, u)
    <3>1. \/ installed'[u] = None \/ installed'[u] = installed[u]
          \/ goal.unit[u] # None /\ installed'[u] = Rendered(goal, u)
      BY <2>1, <2>2, TriedUnits DEF UnitsAfter, PermitGiven
    <3> QED
      BY <2>2, <3>1 DEF FromInputs
  <2> QED
    BY <2>3 DEF FromInputs, Rendered
<1> QED
  BY <1>1, <1>2 DEF ApplyStep, Tries

\* With no operation left the disk is that of the input.
LEMMA SettledOnDisk ==
    ASSUME IInv, NEW g \in Inputs, Settled(g, {}, installed, files, dirs, secrets)
    PROVE  OnDisk(g)
<1>1. g \in Input
  BY InputsTyped
<1>2. \A u \in Desired(g) : installed[u] = Rendered(g, u)
  BY DEF Settled, Desired
<1>3. \A u \in Desired(g) \cap Stored : files[u] = g.files[u]
  <2> SUFFICES ASSUME NEW u \in Desired(g) \cap Stored PROVE files[u] = g.files[u]
    OBVIOUS
  <2>1. files[u] \in FileMap /\ g.files[u] \in FileMap
    BY <1>1 DEF IInv, HostInv, HostTyped, Input
  <2>2. \A f \in File : files[u][f] = g.files[u][f]
    BY DEF Settled, Desired
  <2> QED
    BY <2>1, <2>2 DEF FileMap
<1>4. \A c \in Containers(g) : dirs[c] = g.dirs[c]
  <2> SUFFICES ASSUME NEW c \in Containers(g) PROVE dirs[c] = g.dirs[c]
    OBVIOUS
  <2>1. dirs[c] \in DirMap /\ g.dirs[c] \in DirMap
    BY <1>1 DEF IInv, HostInv, HostTyped, Input, Containers
  <2>2. \A d \in Dir : dirs[c][d] = g.dirs[c][d]
    BY DEF Settled, Containers, Desired
  <2> QED
    BY <2>1, <2>2 DEF DirMap
<1>5. secrets = g.secrets
  <2>1. \A x \in Secret : secrets[x] = g.secrets[x]
    BY DEF Settled
  <2> QED
    BY <1>1, <2>1 DEF IInv, HostInv, HostTyped, Input
<1>6. \A u \in Unit \ Desired(g) : installed[u] # None => Kept(g, u)
  BY DEF Settled, Desired, Kept
<1> QED
  BY <1>2, <1>3, <1>4, <1>5, <1>6 DEF OnDisk
=============================================================================
