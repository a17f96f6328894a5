------------------------ MODULE ReconcileOrderProofs ------------------------
(***************************************************************************)
(* Proofs of properties of Reconcile that rest on the order of operations  *)
(* and on what the plan holds back: nothing a locked container uses goes   *)
(* with it, no container is stopped before its image is local, no secret   *)
(* is ever stored under an old and a new name, and nothing is rewritten    *)
(* under a container that runs.  They extend the invariant of              *)
(* ReconcileProofs by what the rest of a plan still owes.                  *)
(***************************************************************************)
EXTENDS ReconcileProofs

Deletion == {"DeleteFsQuadletUnitFile", "DeletePodmanVolume", "DeletePodmanNetwork", "DeletePodmanImage"}

\* A unit without a spec is as it was when the run planned, or gone, and nothing
\* that is still to be deleted is referred to by a locked container without a spec.
Held ==
    pc # "idle" =>
        /\ \A u \in Unit : goal.unit[u] = None => installed[u] \in {base[u], None}
        /\ \A s \in todo : \A c \in Container :
              (/\ s.op \in Deletion /\ goal.unit[s.unit] = None
               /\ goal.unit[c] = None /\ base[c] # None /\ ~base[c].allowed)
              => s.unit \notin base[c].refs

\* Every image the input needs is local or still to be pulled.
Pull(i) == [op |-> "PullPodmanImage", unit |-> None, item |-> i]
Pulled ==
    pc = "apply" =>
        \A c \in Containers(goal) :
            goal.unit[c].image \in images \cup {None} \/ Pull(goal.unit[c].image) \in todo

\* Every stored secret that the input has dropped is still to be deleted, and
\* none of those is still to be stored.
Drop(x) == [op |-> "DeletePodmanSecret", unit |-> None, item |-> x]
Dropped ==
    pc = "apply" =>
        /\ \A x \in Secret : (secrets[x] # None /\ goal.secrets[x] = None) => Drop(x) \in todo
        /\ \A s \in todo : s.op = "UpsertPodmanSecret" => goal.secrets[s.item] # None

(***************************************************************************)
(* How a run goes on.                                                      *)
(***************************************************************************)

\* An operation leaves the plan when it has been tried, whatever came of it, and
\* a failed daemon-reload takes the whole plan with it.
LEMMA OpTaken ==
    ASSUME NEW s \in todo,
           \/ PullPodmanImage(s) \/ StopSystemdService(s)
           \/ WriteFsContainerConfigFile(s) \/ DeleteFsContainerConfigFile(s)
           \/ DeleteFsContainerConfig(s)
           \/ WriteFsContainerConfigDir(s) \/ DeleteFsContainerConfigDir(s)
           \/ WriteFsBuildContextFile(s) \/ DeleteFsBuildContextFile(s)
           \/ DeleteFsBuildContext(s)
           \/ DeletePodmanSecret(s) \/ UpsertPodmanSecret(s)
           \/ WriteFsQuadletUnitFile(s) \/ DeleteFsQuadletUnitFile(s)
           \/ DeletePodmanVolume(s) \/ DeletePodmanNetwork(s) \/ DeletePodmanImage(s)
           \/ DaemonReload(s) \/ ReloadSystemdService(s) \/ StartSystemdService(s)
    PROVE  /\ todo' = todo \ {s} \/ (todo' = {} /\ pc' = "abort")
           /\ UNCHANGED <<goal, base>>
<1>1. ASSUME Done(s) PROVE todo' = todo \ {s} /\ UNCHANGED <<goal, base>>
  BY <1>1 DEF Done
<1>2. ASSUME NEW cannot, Exec(s, cannot) \/ ExecUnit(s, cannot)
      PROVE  todo' = todo \ {s} /\ UNCHANGED <<goal, base>>
  BY <1>2 DEF Exec, ExecUnit, Fails, NotDone
<1>3. CASE ReloadSystemdService(s)
  BY <1>1, <1>2, <1>3, Zenon DEF ReloadSystemdService
<1>4. CASE PullPodmanImage(s) \/ StopSystemdService(s) \/ DaemonReload(s) \/ StartSystemdService(s)
  BY <1>1, <1>2, <1>4 DEF PullPodmanImage, StopSystemdService, DaemonReload, StartSystemdService
<1>5. CASE \/ WriteFsContainerConfigFile(s) \/ DeleteFsContainerConfigFile(s)
           \/ DeleteFsContainerConfig(s)
           \/ WriteFsContainerConfigDir(s) \/ DeleteFsContainerConfigDir(s)
           \/ WriteFsBuildContextFile(s) \/ DeleteFsBuildContextFile(s)
           \/ DeleteFsBuildContext(s)
           \/ WriteFsQuadletUnitFile(s) \/ DeleteFsQuadletUnitFile(s)
  BY <1>1, <1>2, <1>5
     DEF WriteFsContainerConfigFile, DeleteFsContainerConfigFile, DeleteFsContainerConfig,
         WriteFsContainerConfigDir, DeleteFsContainerConfigDir, WriteFsBuildContextFile,
         DeleteFsBuildContextFile, DeleteFsBuildContext, WriteFsQuadletUnitFile,
         DeleteFsQuadletUnitFile, FilesWritten, NotDone
<1>6. CASE \/ DeletePodmanSecret(s) \/ UpsertPodmanSecret(s)
           \/ DeletePodmanVolume(s) \/ DeletePodmanNetwork(s) \/ DeletePodmanImage(s)
  BY <1>1, <1>2, <1>6
     DEF DeletePodmanSecret, UpsertPodmanSecret, DeletePodmanVolume, DeletePodmanNetwork,
         DeletePodmanImage, Remove
<1> QED
  BY <1>3, <1>4, <1>5, <1>6

\* Between its plan and its end a run only drops operations from its plan.
LEMMA RunGoesOn ==
    ASSUME IInv, [Next]_vars, pc' # "idle"
    PROVE  \/ \E in \in Inputs : Plan(in)
           \/ pc # "idle" /\ todo' \subseteq todo /\ UNCHANGED <<goal, base>>
<1>1. CASE ApplyStep
  <2>1. PICK s \in todo : todo' \subseteq todo /\ UNCHANGED <<goal, base>>
    BY <1>1, OpTaken DEF ApplyStep, Finish
  <2>2. pc # "idle"
    BY <2>1 DEF IInv, RunInv
  <2> QED
    BY <2>1, <2>2
<1>2. CASE \E in \in Inputs : Plan(in) \/ Refuse(in)
  BY <1>2 DEF Refuse
<1>3. CASE Crash \/ Reboot \/ \E c \in Container : ContainerExit(c) \/ AutoRestart(c)
  BY <1>3 DEF Crash, Reboot, Ends, ContainerExit, AutoRestart, run
<1>4. CASE UNCHANGED vars
  BY <1>4 DEF vars
<1> QED
  BY <1>1, <1>2, <1>3, <1>4 DEF Next

\* A run that has given up never applies again.
LEMMA AbortStays == IInv /\ [Next]_vars /\ pc' = "apply" /\ pc # "idle" => pc = "apply"
<1>1. ASSUME ApplyStep, pc' = "apply" PROVE pc = "apply"
  BY <1>1
     DEF ApplyStep, Finish, PullPodmanImage, StopSystemdService, WriteFsContainerConfigFile,
         DeleteFsContainerConfigFile, DeleteFsContainerConfig, WriteFsContainerConfigDir,
         DeleteFsContainerConfigDir, WriteFsBuildContextFile, DeleteFsBuildContextFile,
         DeleteFsBuildContext, DeletePodmanSecret, UpsertPodmanSecret, WriteFsQuadletUnitFile,
         DeleteFsQuadletUnitFile, DeletePodmanVolume, DeletePodmanNetwork, DeletePodmanImage,
         DaemonReload, ReloadSystemdService, StartSystemdService, Due, Done
<1>2. ASSUME \/ \E in \in Inputs : Plan(in) \/ Refuse(in)
             \/ Crash \/ Reboot \/ UNCHANGED vars
             \/ \E c \in Container : ContainerExit(c) \/ AutoRestart(c),
             pc' = "apply"
      PROVE  pc \in {"idle", "apply"}
  BY <1>2 DEF Plan, Refuse, Crash, Reboot, Ends, ContainerExit, AutoRestart, run, vars
<1> QED
  BY <1>1, <1>2 DEF Next

\* While a run applies, an operation leaves its plan only by being tried.
LEMMA TakenByItsOp ==
    ASSUME ApplyStep, pc' = "apply", NEW s \in todo, s \notin todo'
    PROVE  /\ s.op = "PullPodmanImage" => PullPodmanImage(s)
           /\ s.op = "DeletePodmanSecret" => DeletePodmanSecret(s)
           /\ s.op = "StopSystemdService" => StopSystemdService(s)
<1>1. PICK t \in todo : \/ PullPodmanImage(t) \/ StopSystemdService(t)
                       \/ WriteFsContainerConfigFile(t) \/ DeleteFsContainerConfigFile(t)
                       \/ DeleteFsContainerConfig(t)
                       \/ WriteFsContainerConfigDir(t) \/ DeleteFsContainerConfigDir(t)
                       \/ WriteFsBuildContextFile(t) \/ DeleteFsBuildContextFile(t)
                       \/ DeleteFsBuildContext(t)
                       \/ DeletePodmanSecret(t) \/ UpsertPodmanSecret(t)
                       \/ WriteFsQuadletUnitFile(t) \/ DeleteFsQuadletUnitFile(t)
                       \/ DeletePodmanVolume(t) \/ DeletePodmanNetwork(t) \/ DeletePodmanImage(t)
                       \/ DaemonReload(t) \/ ReloadSystemdService(t) \/ StartSystemdService(t)
  BY DEF ApplyStep, Finish
<1>2. todo' = todo \ {t}
  BY <1>1, OpTaken
<1>3. t = s
  BY <1>2
<1> QED
  BY <1>1, <1>3
     DEF Due, PullPodmanImage, StopSystemdService, WriteFsContainerConfigFile,
         DeleteFsContainerConfigFile, DeleteFsContainerConfig, WriteFsContainerConfigDir,
         DeleteFsContainerConfigDir, WriteFsBuildContextFile, DeleteFsBuildContextFile,
         DeleteFsBuildContext, DeletePodmanSecret, UpsertPodmanSecret, WriteFsQuadletUnitFile,
         DeleteFsQuadletUnitFile, DeletePodmanVolume, DeletePodmanNetwork, DeletePodmanImage,
         DaemonReload, ReloadSystemdService, StartSystemdService

(***************************************************************************)
(* What a locked container without a spec uses is kept.                    *)
(***************************************************************************)

\* Whatever a plan deletes that has no spec is pruned.
LEMMA DeletedIsPruned ==
    ASSUME NEW in \in Inputs, NEW s \in BuildPlan(in), s.op \in Deletion, in.unit[s.unit] = None
    PROVE  s.unit \in Pruned(in)
<1>1. CASE s.op = "DeleteFsQuadletUnitFile"
  BY <1>1 DEF BuildPlan, FileOps, UnitOps, ServiceOps, Ops, ItemOps
<1>2. CASE s.op = "DeletePodmanImage"
  BY <1>2 DEF BuildPlan, FileOps, UnitOps, ServiceOps, Ops, ItemOps, Reclaimed
<1>3. CASE s.op \in {"DeletePodmanVolume", "DeletePodmanNetwork"}
  <2>1. s.unit \in Recreated(in) \cup Reclaimed(in)
    BY <1>3 DEF BuildPlan, FileOps, UnitOps, ServiceOps, Ops, ItemOps
  <2> QED
    BY <2>1 DEF Recreated, Reclaimed, Desired
<1> QED
  BY <1>1, <1>2, <1>3 DEF Deletion

\* A plan holds back what the locked containers without a spec refer to.
LEMMA PlanHolds ==
    ASSUME IInv, NEW in \in Inputs, Plan(in)
    PROVE  Held'
<1>1. goal' = in /\ base' = installed /\ installed' = installed /\ todo' \subseteq BuildPlan(in)
  BY DEF Plan, host, disk
<1>2. ASSUME NEW s \in todo', NEW c \in Container, s.op \in Deletion, in.unit[s.unit] = None,
             in.unit[c] = None, installed[c] # None, ~installed[c].allowed
      PROVE  s.unit \notin installed[c].refs
  <2>1. s.unit \in Pruned(in)
    BY <1>1, <1>2, DeletedIsPruned
  <2>2. c \in Stale(in) \cap Container /\ ~IsUnitRemovalAllowed(c)
    BY <1>2 DEF Stale, Unit, IsUnitRemovalAllowed
  <2>3. installed[c].refs \subseteq SkippedContainerReferences(in)
    BY <2>2 DEF SkippedContainerReferences
  <2> QED
    BY <2>1, <2>3 DEF Pruned
<1> QED
  BY <1>1, <1>2 DEF Held

\* A unit file changes when its write is due, or its deletion, or half of it is
\* written when the process dies, which ends the run.
LEMMA InstalledChanged ==
    ASSUME IInv, [Next]_vars, pc' # "idle", NEW u \in Unit, installed'[u] # installed[u]
    PROVE  \/ goal.unit[u] # None
           \/ installed'[u] = None
<1>1. PICK s \in todo : WriteFsQuadletUnitFile(s) \/ DeleteFsQuadletUnitFile(s)
  <2>1. ASSUME UNCHANGED installed PROVE FALSE
    BY <2>1
  <2>2. CASE ApplyStep
    BY <2>1, <2>2
       DEF ApplyStep, Finish, PullPodmanImage, StopSystemdService, WriteFsContainerConfigFile,
           DeleteFsContainerConfigFile, DeleteFsContainerConfig, WriteFsContainerConfigDir,
           DeleteFsContainerConfigDir, WriteFsBuildContextFile, DeleteFsBuildContextFile,
           DeleteFsBuildContext, DeletePodmanSecret, UpsertPodmanSecret, DeletePodmanVolume,
           DeletePodmanNetwork, DeletePodmanImage, DaemonReload, ReloadSystemdService,
           StartSystemdService, Remove, Exec, ExecUnit, Fails, FilesWritten, host, disk
  <2>3. CASE \/ \E in \in Inputs : Plan(in) \/ Refuse(in)
             \/ Crash \/ Reboot \/ UNCHANGED vars
             \/ \E c \in Container : ContainerExit(c) \/ AutoRestart(c)
    BY <2>1, <2>3 DEF Plan, Refuse, Crash, Ends, Reboot, ContainerExit, AutoRestart, vars, host, disk
  <2> QED
    BY <2>2, <2>3 DEF Next
<1>2. s \in Step
  BY DEF IInv, RunInv, RunTyped
<1>3. CASE WriteFsQuadletUnitFile(s)
  <2>1. s.unit \in Unit /\ goal.unit[s.unit] # None
    BY <1>2, <1>3 DEF WriteFsQuadletUnitFile, Due, Step, IInv, RunInv, PermitGiven
  <2> QED
    BY <1>3, <2>1 DEF WriteFsQuadletUnitFile, ExecUnit, Fails, host, disk, IInv, HostInv, HostTyped
<1>4. CASE DeleteFsQuadletUnitFile(s)
  BY <1>4 DEF DeleteFsQuadletUnitFile, Exec, Fails, host, disk, IInv, HostInv, HostTyped
<1> QED
  BY <1>1, <1>3, <1>4

\* So what is held stays held until the run ends.
LEMMA HeldStays == IInv /\ Held /\ [Next]_vars => Held'
<1> SUFFICES ASSUME IInv, Held, [Next]_vars PROVE Held'
  OBVIOUS
<1>1. CASE pc' = "idle"
  BY <1>1 DEF Held
<1>2. CASE \E in \in Inputs : Plan(in)
  BY <1>2, PlanHolds
<1>3. CASE pc' # "idle" /\ pc # "idle" /\ todo' \subseteq todo /\ UNCHANGED <<goal, base>>
  <2>1. ASSUME NEW u \in Unit, goal.unit[u] = None PROVE installed'[u] \in {base[u], None}
    BY <1>3, <2>1, InstalledChanged DEF Held
  <2> QED
    BY <1>3, <2>1 DEF Held
<1> QED
  BY <1>1, <1>2, <1>3, RunGoesOn

\* A locked container that lost its spec keeps the unit files and the podman
\* resources it refers to, for any units and inputs and wherever runs fail.
THEOREM LockedKeep == Spec => LockedKeepsWhatItUses
<1>1. ASSUME IInv, Held, [Next]_vars, NEW c \in Container, NEW r \in Resource,
             goal.unit[c] = None, goal.unit[r] = None,
             installed[c] # None, ~installed[c].allowed, r \in installed[c].refs
      PROVE  /\ installed[r] # None => installed'[r] # None
             /\ resource[r] # None => resource'[r] # None
  <2>1. ASSUME NEW s \in todo, s.op \in Deletion, s.unit = r PROVE FALSE
    <3>1. pc # "idle"
      BY <1>1, <2>1 DEF IInv, RunInv
    <3>2. installed[c] = base[c]
      BY <1>1, <3>1 DEF Held, Unit
    <3> QED
      BY <1>1, <2>1, <3>1, <3>2 DEF Held
  <2>2. ASSUME installed[r] # None, installed'[r] = None PROVE FALSE
    <3>1. PICK s \in todo : DeleteFsQuadletUnitFile(s) /\ s.unit = r
      BY <1>1, <2>2, InstalledLost DEF Unit
    <3> QED
      BY <2>1, <3>1 DEF DeleteFsQuadletUnitFile, Due, Deletion
  <2>3. ASSUME resource[r] # None, resource'[r] = None PROVE FALSE
    <3>1. PICK s \in todo : /\ s.unit = r
                            /\ \/ DeletePodmanVolume(s) \/ DeletePodmanNetwork(s)
                               \/ DeletePodmanImage(s)
      BY <1>1, <2>3, ResourceLost
    <3> QED
      BY <2>1, <3>1 DEF DeletePodmanVolume, DeletePodmanNetwork, DeletePodmanImage, Due, Deletion
  <2> QED
    BY <2>2, <2>3
<1>2. Init => Held
  BY DEF Init, Held
<1>3. IInv /\ Held /\ [Next]_vars =>
        [\A c \in Container, r \in Resource :
          (/\ goal # None /\ goal.unit[c] = None /\ goal.unit[r] = None
           /\ installed[c] # None /\ ~installed[c].allowed /\ r \in installed[c].refs)
          => /\ installed[r] # None => installed'[r] # None
             /\ resource[r] # None => resource'[r] # None]_vars
  BY <1>1
<1> QED
  BY <1>2, <1>3, HeldStays, Invariance, PTL DEF Spec, LockedKeepsWhatItUses

(***************************************************************************)
(* No container is stopped before its image is local.                      *)
(***************************************************************************)

\* Nothing a run does takes an image out of the local store.
LEMMA ImagesGrow == [Next]_vars => images \subseteq images'
<1> SUFFICES ASSUME [Next]_vars PROVE images \subseteq images'
  OBVIOUS
<1>1. CASE ApplyStep
  BY <1>1
     DEF ApplyStep, Finish, PullPodmanImage, StopSystemdService, WriteFsContainerConfigFile,
         DeleteFsContainerConfigFile, DeleteFsContainerConfig, WriteFsContainerConfigDir,
         DeleteFsContainerConfigDir, WriteFsBuildContextFile, DeleteFsBuildContextFile,
         DeleteFsBuildContext, DeletePodmanSecret, UpsertPodmanSecret, WriteFsQuadletUnitFile,
         DeleteFsQuadletUnitFile, DeletePodmanVolume,
         DeletePodmanNetwork, DeletePodmanImage, DaemonReload, ReloadSystemdService,
         StartSystemdService, ServiceStarts, Remove, Exec, ExecUnit, Fails, FilesWritten,
         host, podman
<1>2. CASE \/ \E in \in Inputs : Plan(in) \/ Refuse(in)
           \/ Crash \/ Reboot \/ UNCHANGED vars
           \/ \E c \in Container : ContainerExit(c) \/ AutoRestart(c)
  BY <1>2 DEF Plan, Refuse, Crash, Reboot, ContainerExit, AutoRestart, ServiceStarts,
              vars, host, podman
<1> QED
  BY <1>1, <1>2 DEF Next

\* A plan pulls every image its input needs and the host lacks.
LEMMA PlanPulls ==
    ASSUME IInv, NEW in \in Inputs, Plan(in)
    PROVE  Pulled'
<1>1. /\ goal' = in /\ images' = images
      /\ \E unseen : todo' = BuildPlan(in) \ Ops("StopSystemdService", unseen)
  BY DEF Plan, host, podman
<1>2. ASSUME NEW c \in Containers(in), in.unit[c].image \notin images \cup {None}
      PROVE  Pull(in.unit[c].image) \in todo'
  <2>1. in.unit[c].image \in MissingImages(in)
    BY <1>2 DEF MissingImages
  <2>2. Pull(in.unit[c].image) \in BuildPlan(in)
    BY <2>1 DEF BuildPlan, ItemOps, Pull
  <2>3. \A us : Pull(in.unit[c].image) \notin Ops("StopSystemdService", us)
    BY DEF Ops, Pull
  <2> QED
    BY <1>1, <2>2, <2>3
<1> QED
  BY <1>1, <1>2 DEF Pulled

\* A pull leaves the plan with the image local, or the run gives up.
LEMMA PulledStays == IInv /\ Pulled /\ [Next]_vars => Pulled'
<1> SUFFICES ASSUME IInv, Pulled, [Next]_vars, pc' = "apply" PROVE Pulled'
  BY DEF Pulled
<1>1. CASE \E in \in Inputs : Plan(in)
  BY <1>1, PlanPulls
<1>2. ASSUME pc = "apply", goal' = goal, NEW i, Pull(i) \in todo, Pull(i) \notin todo'
      PROVE  i \in images'
  <2>1. CASE ApplyStep
    <3>1. PullPodmanImage(Pull(i))
      BY <1>2, <2>1, TakenByItsOp DEF Pull
    <3> QED
      BY <3>1 DEF PullPodmanImage, Pull
  <2>2. CASE \/ \E in \in Inputs : Plan(in) \/ Refuse(in)
             \/ \E c \in Container : ContainerExit(c) \/ AutoRestart(c)
             \/ Crash \/ Reboot \/ UNCHANGED vars
    BY <1>2, <2>2 DEF Plan, Refuse, Crash, Reboot, Ends, ContainerExit, AutoRestart, run, vars
  <2> QED
    BY <2>1, <2>2 DEF Next
<1>3. pc = "apply" \/ \E in \in Inputs : Plan(in)
  BY RunGoesOn, AbortStays
<1>4. CASE pc = "apply" /\ goal' = goal
  BY <1>2, <1>4, ImagesGrow DEF Pulled, Containers, Desired
<1> QED
  BY <1>1, <1>3, <1>4, RunGoesOn

\* A service that goes down without a fault went down for a stop of the run.
LEMMA WentDown ==
    ASSUME IInv, [Next]_vars, NEW c \in Container, Active(c), ~Active(c)', faults' = faults
    PROVE  \E s \in todo : StopSystemdService(s)
<1>1. ASSUME UNCHANGED status PROVE FALSE
  BY <1>1 DEF Active
<1>2. ASSUME NEW d \in Container, ServiceStarts(d) PROVE FALSE
  BY <1>2 DEF ServiceStarts, Active, Unit
<1>3. CASE ApplyStep
  <2>1. PICK s \in todo : StopSystemdService(s) \/ StartSystemdService(s)
    BY <1>1, <1>3
       DEF ApplyStep, Finish, PullPodmanImage, WriteFsContainerConfigFile,
           DeleteFsContainerConfigFile, DeleteFsContainerConfig, WriteFsContainerConfigDir,
           DeleteFsContainerConfigDir, WriteFsBuildContextFile, DeleteFsBuildContextFile,
           DeleteFsBuildContext, DeletePodmanSecret, UpsertPodmanSecret, WriteFsQuadletUnitFile,
           DeleteFsQuadletUnitFile, DeletePodmanVolume, DeletePodmanNetwork, DeletePodmanImage,
           DaemonReload, ReloadSystemdService, Remove, Exec, ExecUnit, Fails, FilesWritten,
           host, systemd
  <2>2. CASE StartSystemdService(s)
    <3>1. s.unit \in Container
      BY <2>2 DEF StartSystemdService, Due, Step, IInv, RunInv, RunTyped
    <3>2. ~Active(s.unit) /\ \E to : status' = [status EXCEPT ![s.unit] = to]
      BY <1>1, <1>2, <2>2, <3>1 DEF StartSystemdService, host, systemd
    <3> QED
      BY <3>1, <3>2 DEF Active, Unit, IInv, HostInv, HostTyped
  <2> QED
    BY <2>1, <2>2
<1>4. CASE \/ \E in \in Inputs : Plan(in) \/ Refuse(in)
           \/ Crash \/ UNCHANGED vars
  BY <1>1, <1>4 DEF Plan, Refuse, Crash, vars, host, systemd
<1>5. CASE Reboot \/ \E d \in Container : ContainerExit(d)
  BY <1>5 DEF Reboot, ContainerExit, Fault, IInv, RunInv, RunTyped
<1>6. CASE \E d \in Container : AutoRestart(d)
  BY <1>2, <1>6 DEF AutoRestart
<1> QED
  BY <1>3, <1>4, <1>5, <1>6 DEF Next

\* Containers that have to run again are stopped only with their image in the
\* local store, for any units and inputs and whatever fails.
THEOREM StopsWithImageLocal == Spec => StopsOnlyWithImageLocal
<1>1. ASSUME IInv, Pulled, [Next]_vars, NEW c \in Container,
             pc = "apply", Wanted(c), Active(c), ~Active(c)', faults' = faults
      PROVE  goal.unit[c].image \in images \cup {None}
  <2>1. PICK s \in todo : StopSystemdService(s)
    BY <1>1, WentDown
  <2>2. s.op = "StopSystemdService" /\ \A t \in todo : ~(OpRank[t.op] < OpRank[s.op])
    BY <2>1 DEF StopSystemdService, Due, Precedes
  <2>3. Pull(goal.unit[c].image) \notin todo
    BY <2>2 DEF Pull, OpRank, Order
  <2>4. c \in Containers(goal)
    BY <1>1 DEF Wanted, Containers, Desired, Unit
  <2> QED
    BY <1>1, <2>3, <2>4 DEF Pulled
<1>2. Init => Pulled
  BY DEF Init, Pulled
<1>3. IInv /\ Pulled /\ [Next]_vars =>
        [\A c \in Container :
          (pc = "apply" /\ Wanted(c) /\ Active(c) /\ ~Active(c)' /\ faults' = faults)
          => goal.unit[c].image \in images \cup {None}]_vars
  BY <1>1
<1> QED
  BY <1>2, <1>3, PulledStays, Invariance, PTL DEF Spec, StopsOnlyWithImageLocal

(***************************************************************************)
(* No secret is stored under its old and its new name.                     *)
(***************************************************************************)

\* Secrets change only by their own two operations.
LEMMA SecretsChanged ==
    ASSUME [Next]_vars, secrets' # secrets
    PROVE  \E s \in todo : DeletePodmanSecret(s) \/ UpsertPodmanSecret(s)
<1>1. CASE ApplyStep
  BY <1>1
     DEF ApplyStep, Finish, PullPodmanImage, StopSystemdService, WriteFsContainerConfigFile,
         DeleteFsContainerConfigFile, DeleteFsContainerConfig, WriteFsContainerConfigDir,
         DeleteFsContainerConfigDir, WriteFsBuildContextFile, DeleteFsBuildContextFile,
         DeleteFsBuildContext, WriteFsQuadletUnitFile, DeleteFsQuadletUnitFile,
         DeletePodmanVolume, DeletePodmanNetwork, DeletePodmanImage, DaemonReload,
         ReloadSystemdService, StartSystemdService, Remove, Exec, ExecUnit, Fails,
         FilesWritten, host, podman
<1>2. CASE \/ \E in \in Inputs : Plan(in) \/ Refuse(in)
           \/ Crash \/ Reboot \/ UNCHANGED vars
           \/ \E c \in Container : ContainerExit(c) \/ AutoRestart(c)
  BY <1>2 DEF Plan, Refuse, Crash, Reboot, ContainerExit, AutoRestart, vars, host, podman
<1> QED
  BY <1>1, <1>2 DEF Next

\* A plan deletes every stored secret the input has dropped and stores only
\* secrets the input has.
LEMMA PlanDrops ==
    ASSUME NEW in \in Inputs, Plan(in)
    PROVE  Dropped'
<1>1. /\ goal' = in /\ secrets' = secrets /\ todo' \subseteq BuildPlan(in)
      /\ \E unseen : todo' = BuildPlan(in) \ Ops("StopSystemdService", unseen)
  BY DEF Plan, host, podman
<1>2. ASSUME NEW x \in Secret, secrets[x] # None, in.secrets[x] = None
      PROVE  Drop(x) \in todo'
  <2>1. Drop(x) \in BuildPlan(in)
    BY <1>2 DEF BuildPlan, ItemOps, StaleSecrets, Drop
  <2>2. \A us : Drop(x) \notin Ops("StopSystemdService", us)
    BY DEF Ops, Drop
  <2> QED
    BY <1>1, <2>1, <2>2
<1>3. ASSUME NEW s \in BuildPlan(in), s.op = "UpsertPodmanSecret"
      PROVE  in.secrets[s.item] # None
  BY <1>3 DEF BuildPlan, FileOps, UnitOps, ServiceOps, Ops, ItemOps, ChangedSecrets
<1> QED
  BY <1>1, <1>2, <1>3 DEF Dropped

\* Where no operation fails, a dropped secret is gone once its deletion has left
\* the plan.
LEMMA DroppedStays ==
    ASSUME "fail" \notin FaultKinds, IInv, Dropped, [Next]_vars
    PROVE  Dropped'
<1> SUFFICES ASSUME pc' = "apply" PROVE Dropped'
  BY DEF Dropped
<1>1. CASE \E in \in Inputs : Plan(in)
  BY <1>1, PlanDrops
<1>2. CASE pc = "apply" /\ todo' \subseteq todo /\ goal' = goal
  <2>1. ASSUME NEW x \in Secret, goal.secrets[x] = None, secrets[x] = None
        PROVE  secrets'[x] = None
    <3> SUFFICES ASSUME secrets' # secrets PROVE secrets'[x] = None
      BY <2>1
    <3>1. PICK s \in todo : DeletePodmanSecret(s) \/ UpsertPodmanSecret(s)
      BY SecretsChanged
    <3>2. CASE UpsertPodmanSecret(s)
      <4>1. goal.secrets[s.item] # None
        BY <1>2, <3>2 DEF UpsertPodmanSecret, Due, Dropped
      <4> QED
        BY <2>1, <3>2, <4>1
           DEF UpsertPodmanSecret, Exec, Fails, host, podman, IInv, HostInv, HostTyped
    <3>3. CASE DeletePodmanSecret(s)
      BY <2>1, <3>3 DEF DeletePodmanSecret, Exec, Fails, host, podman, IInv, HostInv, HostTyped
    <3> QED
      BY <3>1, <3>2, <3>3
  <2>2. ASSUME NEW x \in Secret, Drop(x) \in todo, Drop(x) \notin todo'
        PROVE  secrets'[x] = None
    <3>1. CASE ApplyStep
      <4>1. DeletePodmanSecret(Drop(x))
        BY <2>2, <3>1, TakenByItsOp DEF Drop
      <4>2. ~Exec(Drop(x), FALSE)
        BY DEF Exec, Fails, NotDone, Fault
      <4>3. secrets' = [secrets EXCEPT ![x] = None]
        BY <4>1, <4>2 DEF DeletePodmanSecret, Drop
      <4> QED
        BY <4>3 DEF IInv, HostInv, HostTyped
    <3>2. CASE \/ \E in \in Inputs : Plan(in) \/ Refuse(in)
               \/ \E c \in Container : ContainerExit(c) \/ AutoRestart(c)
               \/ Crash \/ Reboot \/ UNCHANGED vars
      BY <1>2, <2>2, <3>2 DEF Plan, Refuse, Crash, Reboot, Ends, ContainerExit, AutoRestart, run, vars
    <3> QED
      BY <3>1, <3>2 DEF Next
  <2> QED
    BY <1>2, <2>1, <2>2 DEF Dropped
<1>3. pc = "apply" \/ \E in \in Inputs : Plan(in)
  BY RunGoesOn, AbortStays
<1> QED
  BY <1>1, <1>2, <1>3, RunGoesOn

\* A renamed secret is never present under both names, for any units and inputs,
\* through crashes, reboots and exits, as long as no operation fails: the failed
\* delete of the old one does not stop the run from storing the new one.
THEOREM RenamedNeverDoubled ==
    ASSUME "fail" \notin FaultKinds
    PROVE  Spec => RenamedSecretNeverDoubled
<1>1. ASSUME IInv, Dropped, [Next]_vars, NEW s \in Secret, NEW t \in Secret,
             secrets[t] = None, secrets'[t] # None, secrets[s] # None
      PROVE  goal.secrets[s] # None
  <2>1. PICK u \in todo : DeletePodmanSecret(u) \/ UpsertPodmanSecret(u)
    BY <1>1, SecretsChanged
  <2>2. CASE DeletePodmanSecret(u)
    BY <1>1, <2>2 DEF DeletePodmanSecret, Exec, Fails, host, podman, IInv, HostInv, HostTyped
  <2>3. CASE UpsertPodmanSecret(u)
    <3>1. pc = "apply" /\ u.op = "UpsertPodmanSecret" /\ \A v \in todo : ~(OpRank[v.op] < OpRank[u.op])
      BY <2>3 DEF UpsertPodmanSecret, Due, Precedes
    <3>2. Drop(s) \notin todo
      BY <3>1 DEF Drop, OpRank, Order
    <3> QED
      BY <1>1, <3>1, <3>2 DEF Dropped
  <2> QED
    BY <2>1, <2>2, <2>3
<1>2. Init => Dropped
  BY DEF Init, Dropped
<1>3. IInv /\ Dropped /\ [Next]_vars =>
        [\A s, t \in Secret :
          (secrets[t] = None /\ secrets'[t] # None /\ secrets[s] # None)
              => goal.secrets[s] # None]_vars
  BY <1>1
<1>4. IInv /\ Dropped /\ [Next]_vars => Dropped'
  BY DroppedStays
<1> QED
  BY <1>2, <1>3, <1>4, Invariance, PTL DEF Spec, RenamedSecretNeverDoubled

(***************************************************************************)
(* Nothing is rewritten under a running container.                         *)
(***************************************************************************)
Stop(c) == [op |-> "StopSystemdService", unit |-> c, item |-> None]
Quiet(c) == status[c] = "inactive" \/ c \in errs \/ Stop(c) \in todo

\* s rewrites what a running container of the input was created with.
Rewrites(s, c) ==
    \/ /\ s.op \in {"WriteFsContainerConfigFile", "DeleteFsContainerConfigFile", "DeleteFsContainerConfig"}
       /\ s.unit = c
    \/ /\ s.op = "WriteFsQuadletUnitFile" /\ s.unit = c
       /\ \/ installed[c] = None
          \/ StripRestartNeutralOptions(Rendered(goal, c)) # StripRestartNeutralOptions(installed[c])
    \/ s.op = "UpsertPodmanSecret" /\ s.item \in goal.unit[c].secrets

\* Who is to be rewritten is down, or still to be stopped, or has failed to stop.
Quieted ==
    pc = "apply" =>
        /\ \A c \in Containers(goal) : \A s \in todo :
              goal.unit[c].type # "oneshot" /\ Rewrites(s, c) => Quiet(c)
        /\ \A c \in Containers(goal) : \A x \in goal.unit[c].secrets : goal.secrets[x] # None
        /\ \A s \in todo :
              /\ s.op = "DeletePodmanSecret" => goal.secrets[s.item] = None
              /\ s.op = "DeleteFsQuadletUnitFile" => goal.unit[s.unit] = None

\* A container for which a plan has a rewrite needs a restart if it is running.
LEMMA RewriteNeedsRestart ==
    ASSUME IInv, NEW in \in Inputs, NEW c \in Containers(in), NEW s \in BuildPlan(in), goal' = in,
           installed' = installed, Rewrites(s, c)', IsRunning(c)
    PROVE  NeedsRestart(in, c)
<1>1. c \notin Pruned(in)
  BY DEF Pruned, Stale, Containers, Desired
<1>2. CASE s.op = "WriteFsContainerConfigFile" /\ s.unit = c
  BY <1>2 DEF BuildPlan, FileOps, UnitOps, ServiceOps, Ops, ItemOps, NeedsRestart, FilesDiffer
<1>3. CASE s.op = "DeleteFsContainerConfigFile" /\ s.unit = c
  BY <1>3 DEF BuildPlan, FileOps, UnitOps, ServiceOps, Ops, ItemOps, NeedsRestart, FilesDiffer
<1>4. CASE s.op = "DeleteFsContainerConfig" /\ s.unit = c
  <2>1. c \in Wiped(in)
    BY <1>1, <1>4 DEF BuildPlan, FileOps, UnitOps, ServiceOps, Ops, ItemOps
  <2>2. in.files[c] = NoFiles /\ files[c] # NoFiles
    BY <2>1 DEF Wiped
  <2>3. files[c] \in FileMap
    BY DEF IInv, HostInv, HostTyped, Containers, Stored
  <2>4. StaleFiles(in, c) # {}
    BY <2>2, <2>3 DEF StaleFiles, NoFiles, FileMap
  <2> QED
    BY <2>4 DEF NeedsRestart, FilesDiffer
<1>5. CASE s.op = "WriteFsQuadletUnitFile"
  BY <1>5 DEF Rewrites, NeedsRestart, MeaningfullyChanged, Rendered
<1>6. CASE s.op = "UpsertPodmanSecret" /\ s.item \in in.unit[c].secrets
  <2>1. s.item \in ChangedSecrets(in)
    BY <1>6 DEF BuildPlan, FileOps, UnitOps, ServiceOps, Ops, ItemOps
  <2> QED
    BY <1>6, <2>1 DEF NeedsRestart
<1> QED
  BY <1>2, <1>3, <1>4, <1>5, <1>6 DEF Rewrites

\* A plan that rewrites what a container was created with stops it, if it runs.
LEMMA PlanQuiets ==
    ASSUME IInv, NEW in \in Inputs, Plan(in)
    PROVE  Quieted'
<1>1. /\ goal' = in /\ installed' = installed /\ status' = status /\ Plannable(in)
      /\ todo' \subseteq BuildPlan(in)
  BY DEF Plan, host, disk, systemd
<1>2. PICK unseen \in SUBSET (Pruned(in) \cap Container) :
         todo' = BuildPlan(in) \ Ops("StopSystemdService", unseen)
  BY DEF Plan
<1>3. ASSUME NEW c \in Containers(in), NEW s \in todo', in.unit[c].type # "oneshot", Rewrites(s, c)',
             IsRunning(c)
      PROVE  Stop(c) \in todo'
  <2>1. NeedsRestart(in, c)
    BY <1>1, <1>3, RewriteNeedsRestart
  <2>2. in.unit[c].type \in {"running", "stopped"}
    BY <1>3, InputsTyped DEF Containers, Desired, Input, UnitFile, Maybe
  <2>3. PlanLifecycle(in, c) \in {"restart", "stop"}
    <3>1. CASE in.unit[c].type = "running"
      BY <2>1, <3>1 DEF PlanLifecycle
    <3>2. CASE in.unit[c].type = "stopped"
      BY <2>1, <3>2 DEF PlanLifecycle
    <3> QED
      BY <2>2, <3>1, <3>2
  <2>4. c \in StopSystemdServices(in)
    BY <2>3 DEF StopSystemdServices, WithLifecycle
  <2>5. Stop(c) \in BuildPlan(in)
    BY <2>4 DEF BuildPlan, ServiceOps, Ops, Stop
  <2>6. c \notin unseen
    BY DEF Pruned, Stale, Containers, Desired
  <2> QED
    BY <1>2, <2>5, <2>6 DEF Ops, Stop
<1>4. ASSUME NEW c \in Containers(in), ~IsRunning(c)
      PROVE  status[c] = "inactive"
  BY <1>4 DEF IsRunning, IInv, HostInv, HostTyped, Containers, Unit
<1>5. \A c \in Containers(in) : \A x \in in.unit[c].secrets : in.secrets[x] # None
  BY <1>1 DEF Plannable, PostRenderValid
<1>6. ASSUME NEW s \in BuildPlan(in), s.op = "DeletePodmanSecret"
      PROVE  in.secrets[s.item] = None
  BY <1>6 DEF BuildPlan, FileOps, UnitOps, ServiceOps, Ops, ItemOps, StaleSecrets
<1>7. ASSUME NEW s \in BuildPlan(in), s.op = "DeleteFsQuadletUnitFile"
      PROVE  in.unit[s.unit] = None
  BY <1>7 DEF BuildPlan, FileOps, UnitOps, ServiceOps, Ops, ItemOps, Pruned, Stale
<1>8. Containers(goal)' = Containers(in)
  BY <1>1
<1> QED
  BY <1>1, <1>3, <1>4, <1>5, <1>6, <1>7, <1>8 DEF Quieted, Quiet

\* A service comes up while a run applies only by its start, or to try again.
LEMMA CameUp ==
    ASSUME IInv, [Next]_vars, pc' = "apply", NEW c \in Container,
           status[c] = "inactive", status'[c] # "inactive"
    PROVE  \E s \in todo : StartSystemdService(s)
<1>1. ASSUME UNCHANGED status PROVE FALSE
  BY <1>1
<1>2. c \in Unit /\ c \notin Resource
  BY UnitTypesDisjoint DEF Unit
<1>3. CASE ApplyStep
  <2>1. PICK s \in todo : StopSystemdService(s) \/ StartSystemdService(s)
    BY <1>1, <1>3
       DEF ApplyStep, Finish, PullPodmanImage, WriteFsContainerConfigFile,
           DeleteFsContainerConfigFile, DeleteFsContainerConfig, WriteFsContainerConfigDir,
           DeleteFsContainerConfigDir, WriteFsBuildContextFile, DeleteFsBuildContextFile,
           DeleteFsBuildContext, DeletePodmanSecret, UpsertPodmanSecret, WriteFsQuadletUnitFile,
           DeleteFsQuadletUnitFile, DeletePodmanVolume, DeletePodmanNetwork, DeletePodmanImage,
           DaemonReload, ReloadSystemdService, Remove, Exec, ExecUnit, Fails, FilesWritten,
           host, systemd
  <2>2. ~StopSystemdService(s)
    BY <1>1, <1>2 DEF StopSystemdService, ServiceStops, ExecUnit, Fails, host, systemd
  <2> QED
    BY <2>1, <2>2
<1>4. CASE (\E in \in Inputs : Plan(in) \/ Refuse(in)) \/ Crash \/ UNCHANGED vars
  BY <1>1, <1>4 DEF Plan, Refuse, Crash, vars, host, systemd
<1>5. CASE Reboot
  BY <1>5 DEF Reboot, Ends
<1>6. ASSUME NEW d \in Container, ContainerExit(d)
      PROVE  FALSE
  <2>1. d # c
    BY <1>6 DEF ContainerExit, Active
  <2> QED
    BY <1>2, <1>6, <2>1 DEF ContainerExit, IInv, HostInv, HostTyped
<1>7. ASSUME NEW d \in Container, AutoRestart(d)
      PROVE  FALSE
  <2>1. d # c
    BY <1>7 DEF AutoRestart
  <2>2. loaded[d].refs \subseteq Resource
    BY <1>7 DEF AutoRestart, CanStart, IInv, HostInv, HostTyped, Unit, UnitFile, Maybe
  <2> QED
    BY <1>2, <1>7, <2>1, <2>2 DEF AutoRestart, ServiceStarts
<1> QED
  BY <1>3, <1>4, <1>5, <1>6, <1>7 DEF Next

\* Failures are not forgotten while a run applies, and a stop that leaves the plan has
\* either taken the container down or failed.
LEMMA ErrsGrow ==
    ASSUME [Next]_vars, pc # "idle", pc' # "idle"
    PROVE  errs \subseteq errs'
<1>1. CASE ApplyStep
  BY <1>1
     DEF ApplyStep, Finish, PullPodmanImage, StopSystemdService, WriteFsContainerConfigFile,
         DeleteFsContainerConfigFile, DeleteFsContainerConfig, WriteFsContainerConfigDir,
         DeleteFsContainerConfigDir, WriteFsBuildContextFile, DeleteFsBuildContextFile,
         DeleteFsBuildContext, DeletePodmanSecret, UpsertPodmanSecret, WriteFsQuadletUnitFile,
         DeleteFsQuadletUnitFile, DeletePodmanVolume, DeletePodmanNetwork, DeletePodmanImage,
         DaemonReload, ReloadSystemdService, StartSystemdService, Remove, Exec, ExecUnit, Fails,
         NotDone, FilesWritten, Done
<1>2. CASE \/ \E in \in Inputs : Plan(in) \/ Refuse(in)
           \/ Crash \/ Reboot \/ UNCHANGED vars
           \/ \E c \in Container : ContainerExit(c) \/ AutoRestart(c)
  BY <1>2 DEF Plan, Refuse, Crash, Reboot, Ends, ContainerExit, AutoRestart, vars, run
<1> QED
  BY <1>1, <1>2 DEF Next

\* A stop that was tried has stopped the container or recorded a failure.
LEMMA StoppedOrFailed ==
    ASSUME [Next]_vars, pc = "apply", pc' = "apply", NEW c \in Container,
           Stop(c) \in todo, Stop(c) \notin todo'
    PROVE  status'[c] = "inactive" \/ c \in errs'
<1>1. CASE ApplyStep
  <2>1. StopSystemdService(Stop(c))
    BY <1>1, TakenByItsOp DEF Stop
  <2>2. CASE ServiceStops(StoppedWith(c))
    BY <2>2 DEF ServiceStops, StoppedWith, Unit
  <2>3. CASE \E cannot : ExecUnit(Stop(c), cannot)
    BY <2>3 DEF ExecUnit, Fails, NotDone, Stop
  <2> QED
    BY <2>1, <2>2, <2>3 DEF StopSystemdService, Stop
<1>2. CASE \/ \E in \in Inputs : Plan(in) \/ Refuse(in)
           \/ Crash \/ Reboot \/ UNCHANGED vars
           \/ \E d \in Container : ContainerExit(d) \/ AutoRestart(d)
  BY <1>2 DEF Plan, Refuse, Crash, Reboot, Ends, ContainerExit, AutoRestart, vars, run
<1> QED
  BY <1>1, <1>2 DEF Next

\* The unit file of a unit of the input changes only when its write is tried.
LEMMA UnitWritten ==
    ASSUME IInv, Quieted, [Next]_vars, pc = "apply", pc' = "apply",
           NEW u \in Unit, goal.unit[u] # None, installed'[u] # installed[u]
    PROVE  \E s \in todo : /\ WriteFsQuadletUnitFile(s) /\ s.unit = u /\ todo' = todo \ {s}
                           /\ installed'[u] = Rendered(goal, u)
<1>1. PICK s \in todo : WriteFsQuadletUnitFile(s) \/ DeleteFsQuadletUnitFile(s)
  <2>1. ASSUME UNCHANGED installed PROVE FALSE
    BY <2>1
  <2>2. CASE ApplyStep
    BY <2>1, <2>2
       DEF ApplyStep, Finish, PullPodmanImage, StopSystemdService, WriteFsContainerConfigFile,
           DeleteFsContainerConfigFile, DeleteFsContainerConfig, WriteFsContainerConfigDir,
           DeleteFsContainerConfigDir, WriteFsBuildContextFile, DeleteFsBuildContextFile,
           DeleteFsBuildContext, DeletePodmanSecret, UpsertPodmanSecret, DeletePodmanVolume,
           DeletePodmanNetwork, DeletePodmanImage, DaemonReload, ReloadSystemdService,
           StartSystemdService, Remove, Exec, ExecUnit, Fails, FilesWritten, host, disk
  <2>3. CASE \/ \E in \in Inputs : Plan(in) \/ Refuse(in)
             \/ Crash \/ Reboot \/ UNCHANGED vars
             \/ \E c \in Container : ContainerExit(c) \/ AutoRestart(c)
    BY <2>1, <2>3 DEF Plan, Refuse, Crash, Ends, Reboot, ContainerExit, AutoRestart, vars, host, disk
  <2> QED
    BY <2>2, <2>3 DEF Next
<1>2. s \in Step
  BY DEF IInv, RunInv, RunTyped
<1>3. CASE WriteFsQuadletUnitFile(s)
  <2>1. installed' = [installed EXCEPT ![s.unit] = Rendered(goal, s.unit)] /\ Done(s)
    BY <1>3 DEF WriteFsQuadletUnitFile, ExecUnit, Fails, host, disk
  <2>2. s.unit = u
    BY <2>1 DEF IInv, HostInv, HostTyped
  <2> QED
    BY <1>3, <2>1, <2>2 DEF Done, IInv, HostInv, HostTyped
<1>4. CASE DeleteFsQuadletUnitFile(s)
  <2>1. goal.unit[s.unit] = None
    BY <1>4 DEF DeleteFsQuadletUnitFile, Due, Quieted
  <2>2. s.unit # u
    BY <2>1
  <2> QED
    BY <1>4, <2>2 DEF DeleteFsQuadletUnitFile, Exec, Fails, host, disk, IInv, HostInv, HostTyped
<1> QED
  BY <1>1, <1>3, <1>4

\* That stop comes before every rewrite, whatever happens in between.
LEMMA QuietedStays == IInv /\ Quieted /\ [Next]_vars => Quieted'
<1> SUFFICES ASSUME IInv, Quieted, [Next]_vars, pc' = "apply" PROVE Quieted'
  BY DEF Quieted
<1>1. CASE \E in \in Inputs : Plan(in)
  BY <1>1, PlanQuiets
<1>2. CASE pc = "apply" /\ todo' \subseteq todo /\ UNCHANGED <<goal, base>>
  <2>1. ASSUME NEW c \in Containers(goal), NEW s \in todo', goal.unit[c].type # "oneshot", Rewrites(s, c)'
        PROVE  Quiet(c)'
    <3>1. c \in Container /\ c \in Unit /\ goal.unit[c] # None
      BY DEF Containers, Desired
    <3>2. s \in todo /\ s \in Step
      BY <1>2 DEF IInv, RunInv, RunTyped
    <3>3. s.op = "WriteFsQuadletUnitFile" /\ s.unit = c => installed'[c] = installed[c]
      <4> SUFFICES ASSUME s.op = "WriteFsQuadletUnitFile", s.unit = c, installed'[c] # installed[c]
                   PROVE  FALSE
        OBVIOUS
      <4>1. PICK t \in todo : WriteFsQuadletUnitFile(t) /\ t.unit = c /\ todo' = todo \ {t}
        BY <1>2, <3>1, UnitWritten
      <4>2. t.op = "WriteFsQuadletUnitFile" /\ t \in Step
        BY <4>1 DEF WriteFsQuadletUnitFile, Due, IInv, RunInv, RunTyped
      <4>3. t = s
        BY <3>2, <4>1, <4>2 DEF Step
      <4> QED
        BY <4>1, <4>3
    <3>4. Rewrites(s, c)
      BY <1>2, <2>1, <3>3 DEF Rewrites, Rendered
    <3>5. Quiet(c)
      BY <1>2, <2>1, <3>2, <3>4 DEF Quieted
    <3>6. CASE status[c] = "inactive"
      <4> SUFFICES ASSUME status'[c] # "inactive" PROVE FALSE
        BY DEF Quiet
      <4>1. PICK t \in todo : StartSystemdService(t)
        BY <3>1, <3>6, CameUp
      <4>2. t.op = "StartSystemdService" /\ ~(OpRank[s.op] < OpRank[t.op])
        BY <3>2, <4>1 DEF StartSystemdService, Due, Precedes
      <4> QED
        BY <3>4, <4>2 DEF Rewrites, OpRank, Order
    <3>7. CASE c \in errs
      BY <1>2, <3>7, ErrsGrow DEF Quiet
    <3>8. CASE Stop(c) \in todo
      BY <1>2, <3>1, <3>8, StoppedOrFailed DEF Quiet
    <3> QED
      BY <3>5, <3>6, <3>7, <3>8 DEF Quiet
  <2>2. Containers(goal)' = Containers(goal)
    BY <1>2
  <2> QED
    BY <1>2, <2>1, <2>2 DEF Quieted
<1>3. pc = "apply" \/ \E in \in Inputs : Plan(in)
  BY RunGoesOn, AbortStays
<1> QED
  BY <1>1, <1>2, <1>3, RunGoesOn

\* The files of a container change only by the operations on them.
LEMMA FilesChanged ==
    ASSUME IInv, [Next]_vars, NEW c \in Container, files'[c] # files[c]
    PROVE  \E s \in todo :
              /\ s.unit = c
              /\ \/ WriteFsContainerConfigFile(s) \/ DeleteFsContainerConfigFile(s)
                 \/ DeleteFsContainerConfig(s)
<1>1. ASSUME UNCHANGED files PROVE FALSE
  BY <1>1
<1>2. c \in Stored /\ c \notin Build
  BY UnitTypesDisjoint DEF Stored, Resource
<1>3. CASE ApplyStep
  <2>1. PICK s \in todo : \/ WriteFsContainerConfigFile(s) \/ DeleteFsContainerConfigFile(s)
                         \/ DeleteFsContainerConfig(s) \/ WriteFsBuildContextFile(s)
                         \/ DeleteFsBuildContextFile(s) \/ DeleteFsBuildContext(s)
    BY <1>1, <1>3
       DEF ApplyStep, Finish, PullPodmanImage, StopSystemdService,
           WriteFsContainerConfigDir, DeleteFsContainerConfigDir, DeletePodmanSecret,
           UpsertPodmanSecret, WriteFsQuadletUnitFile, DeleteFsQuadletUnitFile,
           DeletePodmanVolume, DeletePodmanNetwork, DeletePodmanImage, DaemonReload,
           ReloadSystemdService, StartSystemdService, Remove, Exec, ExecUnit, Fails,
           FilesWritten, host, disk
  <2>2. s \in Step
    BY DEF IInv, RunInv, RunTyped
  <2>3. s.unit = c
    <3> SUFFICES ASSUME s.unit # c PROVE files'[c] = files[c]
      BY <1>1
    <3>1. ASSUME NEW v, SetFile(s, v) PROVE files'[c] = files[c]
      BY <1>2, <3>1 DEF SetFile, IInv, HostInv, HostTyped
    <3>2. ASSUME files' = [files EXCEPT ![s.unit] = NoFiles] PROVE files'[c] = files[c]
      BY <1>2, <3>2 DEF IInv, HostInv, HostTyped
    <3>3. ASSUME \E cannot : Exec(s, cannot) \/ ExecUnit(s, cannot) PROVE files'[c] = files[c]
      BY <3>3 DEF Exec, ExecUnit, Fails, host, disk
    <3> QED
      BY <2>1, <3>1, <3>2, <3>3
         DEF WriteFsContainerConfigFile, DeleteFsContainerConfigFile, DeleteFsContainerConfig,
             WriteFsBuildContextFile, DeleteFsBuildContextFile, DeleteFsBuildContext
  <2>4. ~(WriteFsBuildContextFile(s) \/ DeleteFsBuildContextFile(s) \/ DeleteFsBuildContext(s))
    <3>1. s.op \in {"WriteFsBuildContextFile", "DeleteFsBuildContextFile", "DeleteFsBuildContext"}
             => s.unit \in Build
      BY <2>2 DEF Step
    <3> QED
      BY <1>2, <2>3, <3>1
         DEF WriteFsBuildContextFile, DeleteFsBuildContextFile, DeleteFsBuildContext, Due
  <2> QED
    BY <2>1, <2>3, <2>4
<1>4. CASE \/ \E in \in Inputs : Plan(in) \/ Refuse(in)
           \/ Crash \/ Reboot \/ UNCHANGED vars
           \/ \E d \in Container : ContainerExit(d) \/ AutoRestart(d)
  BY <1>1, <1>4 DEF Plan, Refuse, Crash, Reboot, ContainerExit, AutoRestart, vars, host, disk
<1> QED
  BY <1>3, <1>4 DEF Next

\* What a running container was created with is never rewritten under it, unless the
\* run failed to stop it and says so: for any units and inputs and whatever fails.
THEOREM NothingRewrittenUnder == Spec => NoRewriteUnderRunning
<1>1. ASSUME IInv, Quieted, [Next]_vars, NEW c \in Container,
             pc = "apply", pc' = "apply", Active(c), c \notin errs,
             goal.unit[c] # None, goal.unit[c].type # "oneshot"
      PROVE  /\ files'[c] = files[c]
             /\ \A x \in goal.unit[c].secrets : secrets'[x] = secrets[x]
             /\ StripRestartNeutralOptions(installed'[c]) = StripRestartNeutralOptions(installed[c])
  <2>1. c \in Containers(goal) /\ c \in Unit /\ status[c] = "active"
    BY <1>1 DEF Containers, Desired, Unit, Active
  <2>2. ASSUME NEW s \in todo, Rewrites(s, c), Due(s.op, s)
        PROVE  FALSE
    <3>1. Stop(c) \in todo
      BY <1>1, <2>1, <2>2 DEF Quieted, Quiet
    <3>2. ~(OpRank["StopSystemdService"] < OpRank[s.op])
      BY <2>2, <3>1 DEF Due, Precedes, Stop
    <3> QED
      BY <2>2, <3>2 DEF Rewrites, OpRank, Order
  <2>3. files'[c] = files[c]
    <3> SUFFICES ASSUME files'[c] # files[c] PROVE FALSE
      OBVIOUS
    <3>1. PICK s \in todo : /\ s.unit = c
                           /\ \/ WriteFsContainerConfigFile(s) \/ DeleteFsContainerConfigFile(s)
                              \/ DeleteFsContainerConfig(s)
      BY <1>1, FilesChanged
    <3>2. Due(s.op, s) /\ Rewrites(s, c)
      BY <3>1 DEF WriteFsContainerConfigFile, DeleteFsContainerConfigFile, DeleteFsContainerConfig,
                  Due, Rewrites
    <3> QED
      BY <2>2, <3>2
  <2>4. ASSUME NEW x \in goal.unit[c].secrets, secrets'[x] # secrets[x] PROVE FALSE
    <3>1. PICK s \in todo : DeletePodmanSecret(s) \/ UpsertPodmanSecret(s)
      BY <1>1, <2>4, SecretsChanged
    <3>2. s.item = x
      <4>1. \/ \E v : secrets' = [secrets EXCEPT ![s.item] = v]
            \/ UNCHANGED secrets
        BY <3>1 DEF DeletePodmanSecret, UpsertPodmanSecret, Exec, Fails, host, podman
      <4>2. x \in Secret
        BY <1>1, <2>1, InputsTyped DEF IInv, RunInv, RunTyped, Input, UnitFile, Maybe
      <4>3. ASSUME NEW v, secrets' = [secrets EXCEPT ![s.item] = v], s.item # x
            PROVE  secrets'[x] = secrets[x]
        BY <4>2, <4>3 DEF IInv, HostInv, HostTyped
      <4> QED
        BY <2>4, <4>1, <4>3
    <3>3. CASE DeletePodmanSecret(s)
      BY <1>1, <2>1, <3>2, <3>3 DEF DeletePodmanSecret, Due, Quieted
    <3>4. CASE UpsertPodmanSecret(s)
      BY <2>2, <3>2, <3>4 DEF UpsertPodmanSecret, Due, Rewrites
    <3> QED
      BY <3>1, <3>3, <3>4
  <2>5. StripRestartNeutralOptions(installed'[c]) = StripRestartNeutralOptions(installed[c])
    <3> SUFFICES ASSUME installed'[c] # installed[c],
                        StripRestartNeutralOptions(installed'[c]) # StripRestartNeutralOptions(installed[c])
                 PROVE  FALSE
      OBVIOUS
    <3>1. PICK s \in todo : /\ WriteFsQuadletUnitFile(s) /\ s.unit = c
                           /\ installed'[c] = Rendered(goal, c)
      BY <1>1, <2>1, UnitWritten
    <3>2. Due(s.op, s) /\ Rewrites(s, c)
      BY <3>1 DEF WriteFsQuadletUnitFile, Due, Rewrites
    <3> QED
      BY <2>2, <3>2
  <2> QED
    BY <2>3, <2>4, <2>5
<1>2. Init => Quieted
  BY DEF Init, Quieted
<1>3. IInv /\ Quieted /\ [Next]_vars =>
        [\A c \in Container :
          (/\ pc = "apply" /\ pc' = "apply" /\ Active(c) /\ Active(c)' /\ c \notin errs
           /\ goal.unit[c] # None /\ goal.unit[c].type # "oneshot")
          => /\ files'[c] = files[c]
             /\ \A s \in ran[c].spec.secrets \cap goal.unit[c].secrets : secrets'[s] = secrets[s]
             /\ StripRestartNeutralOptions(installed'[c]) = StripRestartNeutralOptions(installed[c])]_vars
  BY <1>1
<1> QED
  BY <1>2, <1>3, QuietedStays, Invariance, PTL DEF Spec, NoRewriteUnderRunning
=============================================================================
