----------------------------- MODULE Reconcile -----------------------------
(***************************************************************************)
(* One host reconciled by successive runs of syslet.                       *)
(*                                                                         *)
(* A run reads an input (the specs), plans by diffing the rendered units,  *)
(* files and secrets against the host (BuildPlan, internal/syslet/plan.go) *)
(* and executes the planned operations in a fixed global order (Apply,     *)
(* internal/syslet/apply.go).  The plan keeps no record of earlier runs:   *)
(* what the next run does depends only on what this one left on the host.  *)
(* Any operation may fail, the process may die between any two operations, *)
(* the host may reboot, and containers exit and are restarted by systemd   *)
(* in the middle of a run.                                                 *)
(*                                                                         *)
(* systemd, quadlet and podman are not part of the repository.  They are   *)
(* modelled from how the code drives them, in the section "Environment".   *)
(***************************************************************************)
EXTENDS Integers, FiniteSets

CONSTANTS
    Container, Volume, Network, Build,  \* unit names, one set per unit type
    Image,        \* registry images
    Secret,       \* full podman secret names, "<spec>-<key>"
    File,         \* config file mounts; build context files
    Dir,          \* configDir mounts
    Value,        \* contents of files, secrets and unit bodies
    None,
    Inputs,       \* the inputs the operator may apply
    FaultKinds,   \* which of "fail", "crash", "reboot", "exit" may happen
    MaxFaults     \* how many of them may happen

Resource == Volume \cup Network \cup Build
Unit == Container \cup Resource
Stored == Container \cup Build       \* units that own files on disk

ASSUME UnitTypesDisjoint ==
    /\ Container \cap Resource = {}
    /\ Volume \cap Network = {} /\ Volume \cap Build = {} /\ Network \cap Build = {}
\* No mount is both (ContainerNoOverlappingMountPaths, internal/validate/prerender.go).
ASSUME MountsDisjoint == File \cap Dir = {}
ASSUME FaultsBounded ==
    /\ FaultKinds \subseteq {"fail", "crash", "reboot", "exit"}
    /\ MaxFaults \in Nat

Maybe(S) == S \cup {None}

(***************************************************************************)
(* A rendered unit.  def is everything in the unit the other fields do not *)
(* tell apart.  allowed and reclaim are the [X-Syslet] markers             *)
(* RemovalAllowed=true and ReclaimPolicy=Delete; a build has no removal    *)
(* marker.  type is the desired state ("oneshot" renders Type=oneshot,     *)
(* "running" renders Restart=always and WantedBy=multi-user.target).       *)
(* mounts are the Volume= lines syslet appends for config files and dirs.  *)
(***************************************************************************)
UnitFile == [def: Maybe(Value), allowed: BOOLEAN, reclaim: BOOLEAN,
             type: {"running", "stopped", "oneshot"}, reloadable: BOOLEAN,
             refs: SUBSET Resource, image: Maybe(Image),
             secrets: SUBSET Secret, mounts: SUBSET (File \cup Dir)]

FileMap == [File -> Maybe(Value)]
DirMap == [Dir -> Maybe(Value)]

\* What a podman volume, network or built image was made from.
Made == [def: Maybe(Value), files: FileMap]

\* What a running container was created with.
Snapshot == [spec: UnitFile, files: FileMap, dirs: DirMap,
             secrets: [Secret -> Maybe(Value)], resource: [Resource -> Maybe(Made)]]

ASSUME NoneIsFresh ==
    /\ None \notin Unit \cup Image \cup Secret \cup File \cup Dir \cup Value
    /\ None \notin UnitFile /\ None \notin Made /\ None \notin Snapshot /\ None \notin Inputs

Input == [unit: [Unit -> Maybe(UnitFile)], files: [Stored -> FileMap],
          dirs: [Container -> DirMap], secrets: [Secret -> Maybe(Value)]]

ASSUME InputsTyped == Inputs \subseteq Input
\* Every unit the renderer writes has a body.
ASSUME InputsWhole == \A in \in Inputs : \A u \in Unit : in.unit[u] # None => in.unit[u].def # None

\* A unit file whose write was cut short: os.WriteFile truncates first.
Torn == [def |-> None, allowed |-> FALSE, reclaim |-> FALSE, type |-> "stopped",
         reloadable |-> FALSE, refs |-> {}, image |-> None, secrets |-> {},
         mounts |-> {}]

VARIABLES
    installed,  \* unit files in /etc/containers/systemd
    files,      \* config files and build context files on disk
    dirs,       \* the published version of every configDir
    secrets,    \* podman's secret store
    images,     \* registry images in podman's local store
    resource,   \* podman volumes, networks and built images
    loaded,     \* the services systemd knows since its last daemon-reload
    status,     \* ActiveState of every unit's service
    ran,        \* what each active container was created with
    pc,         \* "idle", "apply", or "abort" once a run has given up
    todo,       \* operations of the plan not executed yet
    goal,       \* the input of the current or latest run
    base,       \* the unit files installed when that run planned (history)
    errs,       \* ApplyReport.failures: the units that failed
    result,     \* exit of the latest run
    faults      \* faults that have happened

disk == <<installed, files, dirs>>
podman == <<secrets, images, resource>>
systemd == <<loaded, status, ran>>
host == <<disk, podman, systemd>>
run == <<pc, todo, goal, base, errs, result>>
vars == <<installed, files, dirs, secrets, images, resource, loaded, status, ran,
          pc, todo, goal, base, errs, result, faults>>

(***************************************************************************)
(* Operations of a plan and the order Apply executes them in.              *)
(***************************************************************************)
Order(pull, upsert, network) ==
    [PullPodmanImage |-> pull, StopSystemdService |-> 2,
     WriteFsContainerConfigFile |-> 3, DeleteFsContainerConfigFile |-> 4,
     DeleteFsContainerConfig |-> 5, WriteFsContainerConfigDir |-> 6,
     DeleteFsContainerConfigDir |-> 7, WriteFsBuildContextFile |-> 8,
     DeleteFsBuildContextFile |-> 9, DeleteFsBuildContext |-> 10,
     DeletePodmanSecret |-> 11, UpsertPodmanSecret |-> upsert,
     WriteFsQuadletUnitFile |-> 13, DeleteFsQuadletUnitFile |-> 14,
     DeletePodmanVolume |-> 15, DeletePodmanNetwork |-> network,
     DeletePodmanImage |-> 17, DaemonReload |-> 18,
     ReloadSystemdService |-> 19, StartSystemdService |-> 20]
\* Mutants: pulls after everything, networks deleted before the stops, secrets
\* upserted before the dropped ones are deleted.
MutantPullsAfterStops == Order(21, 12, 16)
MutantNetworkDeletedFirst == Order(1, 12, 0)
MutantUpsertsFirst == Order(1, 10, 16)

OpRank == Order(1, 12, 16)

Step ==
    UNION {[op: {"PullPodmanImage"}, unit: {None}, item: Image],
           [op: {"StopSystemdService", "WriteFsQuadletUnitFile", "DeleteFsQuadletUnitFile"},
            unit: Unit, item: {None}],
           [op: {"WriteFsContainerConfigFile", "DeleteFsContainerConfigFile"},
            unit: Container, item: File],
           [op: {"WriteFsContainerConfigDir", "DeleteFsContainerConfigDir"},
            unit: Container, item: Dir],
           [op: {"DeleteFsContainerConfig", "ReloadSystemdService", "StartSystemdService"},
            unit: Container, item: {None}],
           [op: {"WriteFsBuildContextFile", "DeleteFsBuildContextFile"}, unit: Build, item: File],
           [op: {"DeleteFsBuildContext", "DeletePodmanImage"}, unit: Build, item: {None}],
           [op: {"DeletePodmanSecret", "UpsertPodmanSecret"}, unit: {None}, item: Secret],
           [op: {"DeletePodmanVolume"}, unit: Volume, item: {None}],
           [op: {"DeletePodmanNetwork"}, unit: Network, item: {None}],
           [op: {"DaemonReload"}, unit: {None}, item: {None}]}

Ops(op, us) == {[op |-> op, unit |-> u, item |-> None] : u \in us}
ItemOps(op, u, items) == {[op |-> op, unit |-> u, item |-> x] : x \in items}

\* Operations of one kind run in the order the planner appended them: desired
\* volumes, networks, builds, containers, then the stale units type by type.
Slot(u) == CASE u \in Volume -> 1 [] u \in Network -> 2 [] u \in Build -> 3
             [] u \in Container -> (IF goal.unit[u] # None THEN 4 ELSE 5)
             [] OTHER -> 0
SweepSlot(u) == CASE u \in Container -> 1 [] u \in Volume -> 2
                  [] u \in Network -> 3 [] OTHER -> 4
Precedes(s, t) ==
    \/ OpRank[s.op] < OpRank[t.op]
    \/ /\ s.op = t.op
       /\ IF s.op = "DeleteFsQuadletUnitFile"
          THEN SweepSlot(s.unit) < SweepSlot(t.unit)
          ELSE Slot(s.unit) < Slot(t.unit)

(***************************************************************************)
(* The plan: a diff of the input against the host.                         *)
(***************************************************************************)
Desired(in) == {u \in Unit : in.unit[u] # None}
Containers(in) == Desired(in) \cap Container
Builds(in) == Desired(in) \cap Build

Rendered(in, u) ==
    IF u \in Container
    THEN [in.unit[u] EXCEPT !.mounts = {f \in File : in.files[u][f] # None}
                                       \cup {d \in Dir : in.dirs[u][d] # None}]
    ELSE in.unit[u]

StripRestartNeutralOptions(f) == [f EXCEPT !.allowed = FALSE, !.reclaim = FALSE]

MutantComparesUnrendered(in, u) == in.unit[u] # installed[u]
IsChanged(in, u) == Rendered(in, u) # installed[u]
MutantMetadataIsMeaningful(in, u) == installed[u] # None /\ IsChanged(in, u)
MeaningfullyChanged(in, u) ==
    /\ installed[u] # None
    /\ StripRestartNeutralOptions(Rendered(in, u)) # StripRestartNeutralOptions(installed[u])

MutantComparesNames(in, u) == {f \in File : in.files[u][f] # None /\ files[u][f] = None}
ChangedFiles(in, u) == {f \in File : in.files[u][f] \notin {None, files[u][f]}}
StaleFiles(in, u) == {f \in File : files[u][f] # None /\ in.files[u][f] = None}
ChangedDirs(in, c) == {d \in Dir : in.dirs[c][d] \notin {None, dirs[c][d]}}
StaleDirs(in, c) == {d \in Dir : dirs[c][d] # None /\ in.dirs[c][d] = None}
FilesDiffer(in, u) == ChangedFiles(in, u) \cup StaleFiles(in, u) # {}

ChangedSecrets(in) == {s \in Secret : in.secrets[s] \notin {None, secrets[s]}}
StaleSecrets(in) == {s \in Secret : secrets[s] # None /\ in.secrets[s] = None}

\* changedVolumes, changedNetworks and changedBuilds of BuildPlan.
Recreated(in) ==
    {r \in Desired(in) \cap Resource :
        \/ MeaningfullyChanged(in, r)
        \/ r \in Build /\ installed[r] # None /\ FilesDiffer(in, r)}

\* Validation and the per-unit planning errors: any of them refuses the plan.
PostRenderValid(in) ==
    \A c \in Containers(in) :
        /\ in.unit[c].refs \subseteq Desired(in)
        /\ \A s \in in.unit[c].secrets : in.secrets[s] # None
MutantNewMarkersCount(in, v) ==
    MeaningfullyChanged(in, v) /\ ~(in.unit[v].allowed /\ in.unit[v].reclaim)
VolumeChangeRefused(in, v) ==
    MeaningfullyChanged(in, v) /\ ~(installed[v].allowed /\ installed[v].reclaim)
Plannable(in) ==
    PostRenderValid(in) /\ \A v \in Desired(in) \cap Volume : ~VolumeChangeRefused(in, v)

IsRunning(c) == status[c] \in {"active", "activating"}

MutantIgnoresFilesAndSecrets(in, c) ==
    /\ IsRunning(c)
    /\ \/ installed[c] = None
       \/ MeaningfullyChanged(in, c)
       \/ in.unit[c].refs \cap Recreated(in) # {}
NeedsRestart(in, c) ==
    /\ IsRunning(c)
    /\ \/ installed[c] = None
       \/ MeaningfullyChanged(in, c)
       \/ FilesDiffer(in, c)
       \/ in.unit[c].refs \cap Recreated(in) # {}
       \/ in.unit[c].secrets \cap ChangedSecrets(in) # {}
       \/ ChangedDirs(in, c) # {} /\ ~in.unit[c].reloadable

MutantStartsOnlyNew(in, c) ==
    CASE in.unit[c].type = "running" /\ NeedsRestart(in, c) -> "restart"
      [] in.unit[c].type = "running" /\ ~NeedsRestart(in, c) /\ installed[c] = None -> "start"
      [] in.unit[c].type = "stopped" /\ IsRunning(c) -> "stop"
      [] OTHER -> "none"
PlanLifecycle(in, c) ==
    LET desired == in.unit[c].type IN
    IF desired = "oneshot" THEN "none"
    ELSE IF NeedsRestart(in, c) /\ desired = "running" THEN "restart"
    ELSE IF NeedsRestart(in, c) \/ (IsRunning(c) /\ desired = "stopped") THEN "stop"
    ELSE IF ChangedDirs(in, c) # {} /\ IsRunning(c) THEN "reload"
    ELSE IF ~IsRunning(c) /\ desired = "running" THEN "start"
    ELSE "none"

\* Stale units, and those of them the plan removes.
Stale(in) == {u \in Unit : installed[u] # None /\ in.unit[u] = None}
IsUnitRemovalAllowed(u) == installed[u].allowed
MutantHoldsNoBuilds(in) ==
    UNION {installed[c].refs :
              c \in {d \in Stale(in) \cap Container : ~IsUnitRemovalAllowed(d)}} \ Build
SkippedContainerReferences(in) ==
    UNION {installed[c].refs :
              c \in {d \in Stale(in) \cap Container : ~IsUnitRemovalAllowed(d)}}
MutantIgnoresLock(in) == Stale(in) \ SkippedContainerReferences(in)
Pruned(in) ==
    {u \in Stale(in) \ SkippedContainerReferences(in) :
        u \in Build \/ IsUnitRemovalAllowed(u)}
Reclaimed(in) == {u \in Pruned(in) \cap Resource : installed[u].reclaim}

MissingImages(in) ==
    {in.unit[c].image : c \in Containers(in)} \ (images \cup {None})

WithLifecycle(in, actions) ==
    {c \in Containers(in) : PlanLifecycle(in, c) \in actions}
MutantVolumesNotStopped(in) ==
    (Recreated(in) \ Volume) \cup WithLifecycle(in, {"restart", "stop"})
StopSystemdServices(in) ==
    Recreated(in) \cup WithLifecycle(in, {"restart", "stop"})
    \cup {c \in Pruned(in) \cap Container : installed[c].type # "oneshot" /\ IsRunning(c)}

\* Files and configDirs: of a container whose last config file is dropped the
\* whole directory is removed, as it is for a removed container.
NoFiles == [f \in File |-> None]
Wiped(in) ==
    {c \in Containers(in) : in.files[c] = NoFiles /\ files[c] # NoFiles}
FileOps(in) ==
    (UNION {ItemOps("WriteFsContainerConfigFile", c, ChangedFiles(in, c)) : c \in Containers(in)})
    \cup (UNION {ItemOps("DeleteFsContainerConfigFile", c, StaleFiles(in, c)) : c \in Containers(in)})
    \cup Ops("DeleteFsContainerConfig", Wiped(in) \cup (Pruned(in) \cap Container))
    \cup (UNION {ItemOps("WriteFsContainerConfigDir", c, ChangedDirs(in, c)) : c \in Containers(in)})
    \cup (UNION {ItemOps("DeleteFsContainerConfigDir", c, StaleDirs(in, c)) : c \in Containers(in)})
    \cup (UNION {ItemOps("WriteFsBuildContextFile", b, ChangedFiles(in, b)) : b \in Builds(in)})
    \cup (UNION {ItemOps("DeleteFsBuildContextFile", b, StaleFiles(in, b)) : b \in Builds(in)})
    \cup Ops("DeleteFsBuildContext", Pruned(in) \cap Build)

UnitOps(in) ==
    LET written == {u \in Desired(in) : IsChanged(in, u)}
        removed == Recreated(in) \cup Reclaimed(in)
    IN  Ops("WriteFsQuadletUnitFile", written)
        \cup Ops("DeleteFsQuadletUnitFile", Pruned(in))
        \cup Ops("DeletePodmanVolume", removed \cap Volume)
        \cup Ops("DeletePodmanNetwork", removed \cap Network)
        \cup Ops("DeletePodmanImage", Reclaimed(in) \cap Build)
        \cup (IF written \cup Pruned(in) # {} THEN Ops("DaemonReload", {None}) ELSE {})

ServiceOps(in) ==
    Ops("StopSystemdService", StopSystemdServices(in))
    \cup Ops("ReloadSystemdService", WithLifecycle(in, {"reload"}))
    \cup Ops("StartSystemdService", WithLifecycle(in, {"restart", "start"}))

BuildPlan(in) ==
    ItemOps("PullPodmanImage", None, MissingImages(in))
    \cup ItemOps("DeletePodmanSecret", None, StaleSecrets(in))
    \cup ItemOps("UpsertPodmanSecret", None, ChangedSecrets(in))
    \cup FileOps(in) \cup UnitOps(in) \cup ServiceOps(in)

(***************************************************************************)
(* Environment: what systemd, quadlet and podman do when they are driven.  *)
(***************************************************************************)
\* The services quadlet generates from the installed files on a daemon-reload
\* or a boot.  A container naming a missing unit file is not generated, and
\* neither is a torn file.
Generated ==
    [u \in Unit |->
        IF /\ installed[u] # None
           /\ installed[u].def # None
           /\ \A r \in installed[u].refs : installed[r] # None
        THEN installed[u] ELSE None]

Active(u) == status[u] = "active"

\* What the service of r makes when it runs.
Fresh(r) == [def |-> loaded[r].def, files |-> IF r \in Build THEN files[r] ELSE NoFiles]
\* A volume that "podman run" makes by itself because it is missing.
Implicit == [def |-> None, files |-> NoFiles]

\* The resources after c's start has run the inactive services it requires.  A
\* volume or network service makes its resource only if it is missing, a build
\* service always builds; a service that is still active does not run again.
ResourcesAfterStart(c) ==
    [r \in Resource |->
        IF r \in loaded[c].refs
        THEN CASE ~Active(r) /\ (r \in Build \/ resource[r] = None) -> Fresh(r)
               [] Active(r) /\ r \in Volume /\ resource[r] = None -> Implicit
               [] OTHER -> resource[r]
        ELSE resource[r]]

CanRun(r) == \/ Active(r)
             \/ loaded[r] # None /\ (r \in Build => \E f \in File : files[r][f] # None)
CanStart(c) ==
    /\ loaded[c] # None
    /\ \A r \in loaded[c].refs : CanRun(r)
    /\ \A r \in loaded[c].refs : ResourcesAfterStart(c)[r] # None
    /\ \A f \in loaded[c].mounts \cap File : files[c][f] # None
    /\ \A d \in loaded[c].mounts \cap Dir : dirs[c][d] # None
    /\ \A s \in loaded[c].secrets : secrets[s] # None

ServiceStarts(c) ==
    /\ resource' = ResourcesAfterStart(c)
    /\ status' = [u \in Unit |-> IF u = c \/ u \in loaded[c].refs THEN "active" ELSE status[u]]
    /\ images' = images \cup ({loaded[c].image} \ {None})
    /\ ran' = [ran EXCEPT ![c] =
                  [spec |-> loaded[c],
                   files |-> [f \in File |-> IF f \in loaded[c].mounts THEN files[c][f] ELSE None],
                   dirs |-> [d \in Dir |-> IF d \in loaded[c].mounts THEN dirs[c][d] ELSE None],
                   secrets |-> [s \in Secret |->
                                   IF s \in loaded[c].secrets THEN secrets[s] ELSE None],
                   resource |-> [r \in Resource |->
                                   IF r \in loaded[c].refs THEN resource'[r] ELSE None]]]

\* Stopping a unit also stops the containers whose generated service requires it.
StoppedWith(u) ==
    {u} \cup {c \in Container : IsRunning(c) /\ loaded[c] # None /\ u \in loaded[c].refs}
ServiceStops(us) ==
    /\ status' = [u \in Unit |-> IF u \in us THEN "inactive" ELSE status[u]]
    /\ ran' = [c \in Container |-> IF c \in us THEN None ELSE ran[c]]

InUse(r) == \E c \in Container : ran[c] # None /\ r \in ran[c].spec.refs

(***************************************************************************)
(* A run.  Every operation is one step: it succeeds, or it fails and the   *)
(* run goes on with the next one.  exec only logs a failure, execUnit also *)
(* records it against the unit, which decides the exit of the run.         *)
(***************************************************************************)
Fault(kind) == kind \in FaultKinds /\ faults < MaxFaults /\ faults' = faults + 1

Due(op, s) ==
    /\ s \in todo /\ s.op = op
    /\ pc = "apply" \/ (pc = "abort" /\ op = "PullPodmanImage")
    /\ \A t \in todo : ~Precedes(t, s)

Done(s) == /\ todo' = todo \ {s}
           /\ UNCHANGED <<pc, goal, base, errs, result, faults>>

\* s fails: because it cannot succeed in this state, or for a reason of its own.
NotDone(s, cannot, blamed) ==
    /\ IF cannot THEN UNCHANGED faults ELSE Fault("fail")
    /\ todo' = todo \ {s}
    /\ errs' = errs \cup blamed
    /\ UNCHANGED <<pc, goal, base, result>>
Fails(s, cannot, blamed) == NotDone(s, cannot, blamed) /\ UNCHANGED host
Exec(s, cannot) == Fails(s, cannot, {})
ExecUnit(s, cannot) == Fails(s, cannot, {s.unit})

\* A state query that fails refuses the plan if the container is desired; if it
\* is stale the error is dropped and the container counts as not running.
Plan(in) ==
    /\ pc = "idle" /\ Plannable(in)
    /\ pc' = "apply" /\ goal' = in /\ base' = installed
    /\ errs' = {} /\ result' = "none"
    /\ \E unseen \in SUBSET (Pruned(in) \cap Container) :
          /\ todo' = BuildPlan(in) \ Ops("StopSystemdService", unseen)
          /\ IF unseen = {} THEN UNCHANGED faults ELSE Fault("fail")
    /\ UNCHANGED host

\* A torn unit file, of whatever unit, may also be cut where it does not parse, and then
\* no plan is made.
Refuse(in) ==
    /\ pc = "idle" /\ (~Plannable(in) \/ \E u \in Unit : installed[u] = Torn)
    /\ result' = "refused" /\ goal' = in /\ base' = installed /\ errs' = {}
    /\ UNCHANGED <<host, pc, todo, faults>>

\* Every image is tried before a failed pull aborts the run.
PullPodmanImage(s) ==
    /\ Due("PullPodmanImage", s)
    /\ \/ /\ images' = images \cup {s.item}
          /\ Done(s) /\ UNCHANGED <<disk, secrets, resource, systemd>>
       \/ /\ Fault("fail")
          /\ pc' = "abort"
          /\ errs' = errs \cup {c \in Containers(goal) : goal.unit[c].image = s.item}
          /\ todo' = todo \ {s}
          /\ UNCHANGED <<host, goal, base, result>>

StopSystemdService(s) ==
    LET unknown == loaded[s.unit] = None /\ status[s.unit] = "inactive" IN
    /\ Due("StopSystemdService", s)
    /\ \/ /\ ~unknown
          /\ ServiceStops(StoppedWith(s.unit))
          /\ Done(s) /\ UNCHANGED <<disk, podman, loaded>>
       \/ ExecUnit(s, unknown)

SetFile(s, v) == files' = [files EXCEPT ![s.unit][s.item] = v]
FilesWritten(s) == Done(s) /\ UNCHANGED <<installed, podman, systemd>>

WriteFsContainerConfigFile(s) ==
    /\ Due("WriteFsContainerConfigFile", s)
    /\ \/ SetFile(s, goal.files[s.unit][s.item]) /\ FilesWritten(s) /\ UNCHANGED dirs
       \/ ExecUnit(s, FALSE)

DeleteFsContainerConfigFile(s) ==
    /\ Due("DeleteFsContainerConfigFile", s)
    /\ \/ SetFile(s, None) /\ FilesWritten(s) /\ UNCHANGED dirs
       \/ Exec(s, FALSE)

\* RemoveUnit deletes the container's whole directory, the configDirs included.
DeleteFsContainerConfig(s) ==
    /\ Due("DeleteFsContainerConfig", s)
    /\ \/ /\ files' = [files EXCEPT ![s.unit] = NoFiles]
          /\ dirs' = [dirs EXCEPT ![s.unit] = [d \in Dir |-> None]]
          /\ FilesWritten(s)
       \/ Exec(s, FALSE)

\* Version files, "..data" swap and links, in full in ConfigDir.  A failure before
\* the swap leaves the old version, one after it has published the new.
WriteFsContainerConfigDir(s) ==
    /\ Due("WriteFsContainerConfigDir", s)
    /\ \/ /\ dirs' = [dirs EXCEPT ![s.unit][s.item] = goal.dirs[s.unit][s.item]]
          /\ Done(s) \/ NotDone(s, FALSE, {s.unit})
          /\ UNCHANGED <<installed, files, podman, systemd>>
       \/ ExecUnit(s, FALSE)

DeleteFsContainerConfigDir(s) ==
    /\ Due("DeleteFsContainerConfigDir", s)
    /\ \/ /\ dirs' = [dirs EXCEPT ![s.unit][s.item] = None]
          /\ FilesWritten(s) /\ UNCHANGED files
       \/ Exec(s, FALSE)

WriteFsBuildContextFile(s) ==
    /\ Due("WriteFsBuildContextFile", s)
    /\ \/ SetFile(s, goal.files[s.unit][s.item]) /\ FilesWritten(s) /\ UNCHANGED dirs
       \/ ExecUnit(s, FALSE)

DeleteFsBuildContextFile(s) ==
    /\ Due("DeleteFsBuildContextFile", s)
    /\ \/ SetFile(s, None) /\ FilesWritten(s) /\ UNCHANGED dirs
       \/ Exec(s, FALSE)

DeleteFsBuildContext(s) ==
    /\ Due("DeleteFsBuildContext", s)
    /\ \/ /\ files' = [files EXCEPT ![s.unit] = NoFiles]
          /\ FilesWritten(s) /\ UNCHANGED dirs
       \/ Exec(s, FALSE)

DeletePodmanSecret(s) ==
    /\ Due("DeletePodmanSecret", s)
    /\ \/ /\ secrets' = [secrets EXCEPT ![s.item] = None]
          /\ Done(s) /\ UNCHANGED <<disk, images, resource, systemd>>
       \/ Exec(s, FALSE)

UpsertPodmanSecret(s) ==
    /\ Due("UpsertPodmanSecret", s)
    /\ \/ /\ secrets' = [secrets EXCEPT ![s.item] = goal.secrets[s.item]]
          /\ Done(s) /\ UNCHANGED <<disk, images, resource, systemd>>
       \/ Exec(s, FALSE)

WriteFsQuadletUnitFile(s) ==
    /\ Due("WriteFsQuadletUnitFile", s)
    /\ \/ /\ installed' = [installed EXCEPT ![s.unit] = Rendered(goal, s.unit)]
          /\ Done(s) /\ UNCHANGED <<files, dirs, podman, systemd>>
       \/ ExecUnit(s, FALSE)

DeleteFsQuadletUnitFile(s) ==
    /\ Due("DeleteFsQuadletUnitFile", s)
    /\ \/ /\ installed' = [installed EXCEPT ![s.unit] = None]
          /\ Done(s) /\ UNCHANGED <<files, dirs, podman, systemd>>
       \/ Exec(s, FALSE)

\* "podman volume rm" and its siblings fail on a resource that is missing or used.
CannotRemove(r) == resource[r] = None \/ InUse(r)
Remove(s) ==
    /\ ~CannotRemove(s.unit)
    /\ resource' = [resource EXCEPT ![s.unit] = None]
    /\ Done(s) /\ UNCHANGED <<disk, secrets, images, systemd>>

DeletePodmanVolume(s) ==
    /\ Due("DeletePodmanVolume", s)
    /\ Remove(s) \/ Exec(s, CannotRemove(s.unit))

\* Only the delete of a recreated network, one still desired, fails its unit.
DeletePodmanNetwork(s) ==
    /\ Due("DeletePodmanNetwork", s)
    /\ \/ Remove(s)
       \/ goal.unit[s.unit] # None /\ ExecUnit(s, CannotRemove(s.unit))
       \/ goal.unit[s.unit] = None /\ Exec(s, CannotRemove(s.unit))

DeletePodmanImage(s) ==
    /\ Due("DeletePodmanImage", s)
    /\ Remove(s) \/ Exec(s, CannotRemove(s.unit))

\* A failed daemon-reload ends the run: nothing is reloaded or started.
DaemonReload(s) ==
    /\ Due("DaemonReload", s)
    /\ \/ /\ loaded' = Generated
          /\ Done(s) /\ UNCHANGED <<disk, podman, status, ran>>
       \/ /\ Fault("fail")
          /\ pc' = "abort" /\ todo' = {}
          /\ UNCHANGED <<host, goal, base, errs, result>>

\* The application rereads its configDirs; systemd refuses to reload a unit that
\* is not active or has no reload command.
ReloadSystemdService(s) ==
    LET c == s.unit
        refused == ~Active(c) \/ loaded[c] = None \/ ~loaded[c].reloadable
    IN  /\ Due("ReloadSystemdService", s)
        /\ \/ /\ ~refused
              /\ ran' = [ran EXCEPT ![c].dirs = dirs[c]]
              /\ Done(s) /\ UNCHANGED <<disk, podman, loaded, status>>
           \/ ExecUnit(s, refused)

\* Starting an active unit does nothing.  A failed start of a Restart=always
\* service leaves it to systemd to try again.
StartSystemdService(s) ==
    LET c == s.unit IN
    /\ Due("StartSystemdService", s)
    /\ \/ Active(c) /\ Done(s) /\ UNCHANGED host
       \/ ~Active(c) /\ CanStart(c) /\ ServiceStarts(c) /\ Done(s) /\ UNCHANGED <<disk, secrets, loaded>>
       \/ /\ ~Active(c)
          /\ IF CanStart(c) THEN Fault("fail") ELSE UNCHANGED faults
          /\ \E to \in IF loaded[c] # None /\ loaded[c].type = "running"
                       THEN {"inactive", "activating"} ELSE {status[c]} :
                status' = [status EXCEPT ![c] = to]
          /\ todo' = todo \ {s} /\ errs' = errs \cup {c}
          /\ UNCHANGED <<disk, podman, loaded, ran, pc, goal, base, result>>

Finish ==
    /\ \/ pc = "apply" /\ todo = {}
       \/ pc = "abort" /\ \A s \in todo : s.op # "PullPodmanImage"
    /\ pc' = "idle" /\ todo' = {}
    /\ result' = IF pc = "apply" /\ errs = {} THEN "ok" ELSE "error"
    /\ UNCHANGED <<host, goal, base, errs, faults>>

(***************************************************************************)
(* What happens to a run and to the host without syslet's doing.           *)
(***************************************************************************)
Ends == /\ pc' = "idle" /\ todo' = {} /\ result' = "none"
        /\ UNCHANGED <<goal, base, errs>>

\* The process dies between two operations, or in the middle of a unit write.
Crash ==
    /\ pc # "idle" /\ Fault("crash") /\ Ends
    /\ UNCHANGED <<files, dirs, podman, systemd>>
    /\ \/ UNCHANGED installed
       \/ \E s \in todo : /\ Due("WriteFsQuadletUnitFile", s)
                          /\ installed' = [installed EXCEPT ![s.unit] = Torn]

\* systemd regenerates every service and brings up those wanted at boot.
Reboot ==
    /\ Fault("reboot") /\ Ends
    /\ loaded' = Generated
    /\ status' = [u \in Unit |->
                    IF u \in Container /\ Generated[u] # None /\ Generated[u].type = "running"
                    THEN "activating" ELSE "inactive"]
    /\ ran' = [c \in Container |-> None]
    /\ UNCHANGED <<disk, podman>>

ContainerExit(c) ==
    /\ Active(c) /\ Fault("exit")
    /\ status' = [status EXCEPT ![c] =
                    IF loaded[c] # None /\ loaded[c].type = "running" THEN "activating" ELSE "inactive"]
    /\ ran' = [ran EXCEPT ![c] = None]
    /\ UNCHANGED <<disk, podman, loaded, run>>

AutoRestart(c) ==
    /\ status[c] = "activating" /\ CanStart(c)
    /\ ServiceStarts(c)
    /\ UNCHANGED <<disk, secrets, loaded, run, faults>>

Init ==
    /\ installed = [u \in Unit |-> None] /\ loaded = [u \in Unit |-> None]
    /\ files = [u \in Stored |-> NoFiles]
    /\ dirs = [c \in Container |-> [d \in Dir |-> None]]
    /\ secrets = [s \in Secret |-> None] /\ images = {}
    /\ resource = [r \in Resource |-> None]
    /\ status = [u \in Unit |-> "inactive"] /\ ran = [c \in Container |-> None]
    /\ pc = "idle" /\ todo = {} /\ goal = None /\ base = installed
    /\ errs = {} /\ result = "none" /\ faults = 0

ApplyStep ==
    \/ \E s \in todo :
          \/ PullPodmanImage(s) \/ StopSystemdService(s)
          \/ WriteFsContainerConfigFile(s) \/ DeleteFsContainerConfigFile(s)
          \/ DeleteFsContainerConfig(s)
          \/ WriteFsContainerConfigDir(s) \/ DeleteFsContainerConfigDir(s)
          \/ WriteFsBuildContextFile(s) \/ DeleteFsBuildContextFile(s)
          \/ DeleteFsBuildContext(s)
          \/ DeletePodmanSecret(s) \/ UpsertPodmanSecret(s)
          \/ WriteFsQuadletUnitFile(s) \/ DeleteFsQuadletUnitFile(s)
          \/ DeletePodmanVolume(s) \/ DeletePodmanNetwork(s) \/ DeletePodmanImage(s)
          \/ DaemonReload(s) \/ ReloadSystemdService(s) \/ StartSystemdService(s)
    \/ Finish

Next ==
    \/ \E in \in Inputs : Plan(in) \/ Refuse(in)
    \/ ApplyStep
    \/ Crash \/ Reboot
    \/ \E c \in Container : ContainerExit(c) \/ AutoRestart(c)

Spec == Init /\ [][Next]_vars

(***************************************************************************)
(* A run goes on until it ends (the loops of Apply are bounded), systemd   *)
(* keeps retrying a Restart=always service (StartLimitIntervalSec=0), and  *)
(* the operator keeps applying.  The last is not the code's doing: it is   *)
(* the condition under which the documentation promises recovery.          *)
(***************************************************************************)
FairSpec ==
    /\ Spec
    /\ WF_vars(ApplyStep)
    /\ WF_vars(\E in \in Inputs : Plan(in) \/ Refuse(in))
    /\ \A c \in Container : WF_vars(AutoRestart(c))

-----------------------------------------------------------------------------
HostTyped ==
    /\ installed \in [Unit -> Maybe(UnitFile)] /\ loaded \in [Unit -> Maybe(UnitFile)]
    /\ files \in [Stored -> FileMap] /\ dirs \in [Container -> DirMap]
    /\ secrets \in [Secret -> Maybe(Value)] /\ images \subseteq Image
    /\ resource \in [Resource -> Maybe(Made)]
    /\ status \in [Unit -> {"inactive", "active", "activating"}]
    /\ ran \in [Container -> Maybe(Snapshot)]
RunTyped ==
    /\ pc \in {"idle", "apply", "abort"}
    /\ todo \subseteq Step
    /\ goal \in Maybe(Inputs)
    /\ base \in [Unit -> Maybe(UnitFile)]
    /\ errs \subseteq Unit
    /\ result \in {"none", "ok", "error", "refused"}
    /\ faults \in 0..MaxFaults
TypeOK == HostTyped /\ RunTyped

\* Every removal still to be done is one the units installed at plan time allow,
\* every unit still to be written is desired, and an active container was created.
PermitGiven(s) ==
    /\ s.op = "WriteFsQuadletUnitFile" => goal.unit[s.unit] # None
    /\ s.op = "DeleteFsQuadletUnitFile" =>
          base[s.unit] # None /\ (s.unit \in Build \/ base[s.unit].allowed)
    /\ s.op = "DeletePodmanVolume" =>
          base[s.unit] # None /\ base[s.unit].allowed /\ base[s.unit].reclaim
ActiveWasCreated == \A c \in Container : Active(c) => ran[c] # None
HostInv == HostTyped /\ ActiveWasCreated
RunInv ==
    /\ RunTyped
    /\ pc = "idle" \/ goal = None => todo = {}
    /\ \A s \in todo : PermitGiven(s)
IInv == HostInv /\ RunInv

(***************************************************************************)
(* What a run that reports success has achieved.                           *)
(***************************************************************************)
\* The running container is the one the input describes.
UpToDate(in, c) ==
    /\ StripRestartNeutralOptions(ran[c].spec) = StripRestartNeutralOptions(Rendered(in, c))
    /\ ran[c].files = in.files[c] /\ ran[c].dirs = in.dirs[c]
    /\ \A s \in in.unit[c].secrets : ran[c].secrets[s] = in.secrets[s]
    /\ \A r \in in.unit[c].refs :
          /\ ran[c].resource[r].def = in.unit[r].def
          /\ r \in Build => ran[c].resource[r].files = in.files[r]

InDesiredState(in, c) ==
    CASE in.unit[c].type = "running" ->
            status[c] = "activating" \/ (Active(c) /\ UpToDate(in, c))
      [] in.unit[c].type = "stopped" -> ~IsRunning(c)
      [] OTHER -> TRUE

Kept(in, u) == \/ u \notin Build /\ ~installed[u].allowed
               \/ \E c \in Container : /\ in.unit[c] = None /\ installed[c] # None
                                       /\ ~installed[c].allowed /\ u \in installed[c].refs

\* The disk and the secret store are those of the input, and of what it has no
\* spec for only what is kept is left.
OnDisk(in) ==
    /\ \A u \in Desired(in) : installed[u] = Rendered(in, u)
    /\ \A u \in Desired(in) \cap Stored : files[u] = in.files[u]
    /\ \A c \in Containers(in) : dirs[c] = in.dirs[c]
    /\ \A u \in Unit \ Desired(in) : installed[u] # None => Kept(in, u)
    /\ secrets = in.secrets

Converged(in) ==
    /\ OnDisk(in)
    /\ \A u \in Desired(in) : loaded[u] = installed[u]
    /\ \A c \in Containers(in) : InDesiredState(in, c)
    /\ \A c \in Container \ Desired(in) : installed[c] = None => ~IsRunning(c)

Wanted(c) == goal # None /\ goal.unit[c] # None /\ goal.unit[c].type = "running"

Succeeding == pc = "apply" /\ todo = {} /\ errs = {}

\* A run about to exit 0 has brought the host to its input: the installed and
\* the loaded units, the files, the secrets, and every running container, which
\* must have been created from the present definition of everything it uses.
OkRunConverges == Succeeding => Converged(goal)

\* A run about to exit 0 has brought the disk and the secrets to its input, whatever
\* a run that died before it left of them.
OkRunRepairsDisk == Succeeding => OnDisk(goal)

\* Applying the same specs again right after a successful apply plans nothing
\* (apply_idempotency_test.go): no operation of a plan is planned again because
\* of what the run itself did.
OkRunIsIdempotent == Succeeding => BuildPlan(goal) = {} /\ Plannable(goal)

\* A run nothing disturbs reports no failed unit: every operation it plans can
\* be executed at the place Apply's order gives it.
UndisturbedRunSucceeds == errs = {} /\ result # "error"

(***************************************************************************)
(* What no run may do, whatever fails.                                     *)
(***************************************************************************)
\* The unit file of a unit that was installed with removalAllowed false when the
\* run planned outlives the run, whatever the input says of it and of the others
\* and wherever the run fails.
ProtectedUnitStays ==
    [][\A u \in Unit \ Build :
          (installed[u] # None /\ base[u] # None /\ ~base[u].allowed /\ pc # "idle")
              => installed'[u] # None]_vars

\* A podman volume's data is deleted only if the unit installed at plan time
\* carried both removalAllowed and reclaimPolicy Delete, whatever markers the
\* new spec has (docs/explanation/removing-specs.md:103; the comment in
\* plan_volume.go:11-16, which asks the new spec, is not what the code does).
VolumeDataNeedsPermit ==
    [][\A v \in Volume :
          (resource[v] # None /\ resource'[v] = None)
              => base[v] # None /\ base[v].allowed /\ base[v].reclaim]_vars

\* What a running container was created with (its files, its unit, its secrets)
\* is rewritten under it only when the run failed to stop it first, which it
\* reports.  configDirs are exempt, being made to change in place, and so are
\* oneshots, which syslet does not stop.
NoRewriteUnderRunning ==
    [][\A c \in Container :
          (/\ pc = "apply" /\ pc' = "apply" /\ Active(c) /\ Active(c)' /\ c \notin errs
           /\ goal.unit[c] # None /\ goal.unit[c].type # "oneshot")
          => /\ files'[c] = files[c]
             /\ \A s \in ran[c].spec.secrets \cap goal.unit[c].secrets : secrets'[s] = secrets[s]
             /\ StripRestartNeutralOptions(installed'[c]) = StripRestartNeutralOptions(installed[c])]_vars

\* A container that has to run again is stopped only once its new image is in
\* the local store: the download never counts as downtime.
StopsOnlyWithImageLocal ==
    [][\A c \in Container :
          (pc = "apply" /\ Wanted(c) /\ Active(c) /\ ~Active(c)' /\ faults' = faults)
          => goal.unit[c].image \in images \cup {None}]_vars

\* A container that is kept although its spec is gone, because it is locked,
\* keeps the unit file and the podman resource of everything it refers to that
\* has no spec either, volumes and builds included (skippedContainerReferences,
\* test/integration/stale_reference_test.go; docs/how-to/manage-volumes.md:130 and
\* docs/reference/spec-schema/build.md:31 say otherwise).
LockedKeepsWhatItUses ==
    [][\A c \in Container, r \in Resource :
          (/\ goal # None /\ goal.unit[c] = None /\ goal.unit[r] = None
           /\ installed[c] # None /\ ~installed[c].allowed /\ r \in installed[c].refs)
          => /\ installed[r] # None => installed'[r] # None
             /\ resource[r] # None => resource'[r] # None]_vars

\* A run never takes down a container that already is what the input describes.
UpToDateIsLeftRunning ==
    [][\A c \in Container :
          (pc = "apply" /\ pc' = "apply" /\ Wanted(c) /\ Active(c) /\ UpToDate(goal, c)
             /\ faults' = faults)
          => Active(c)']_vars

\* No container runs on a volume podman made up because the volume service had
\* no reason to run: it would lack everything the volume unit declares.
RunsOnDeclaredVolume ==
    \A c \in Container, v \in Volume : ran[c] # None => ran[c].resource[v] # Implicit

\* No secret is created while one the input has dropped is still stored, so that
\* a renamed key is never present under both names.
RenamedSecretNeverDoubled ==
    [][\A s, t \in Secret :
          (secrets[t] = None /\ secrets'[t] # None /\ secrets[s] # None)
              => goal.secrets[s] # None]_vars

\* A container the operator wants running eventually runs, whatever exits and
\* reboots happen, in the middle of a run or between runs.
WantedComesUp == \A c \in Container : Wanted(c) ~> (Active(c) \/ ~Wanted(c))

=============================================================================
