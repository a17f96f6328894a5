--------------------------- MODULE TwoRunsProofs ---------------------------
(***************************************************************************)
(* Proof that two invocations of syslet with the same specs settle on them *)
(* however they interleave, for any units, files and specs, where no       *)
(* operation fails of itself and no specs drop a container that some specs *)
(* lock.  What is proved of one run in ReconcileSettleProofs is used for   *)
(* each of the two; the invariant is that every difference of the disk     *)
(* from the specs they share is the matter of an operation of one of them. *)
(***************************************************************************)
EXTENDS TwoRuns, Integers, TLAPS

PA == INSTANCE ReconcileSettleProofs
        WITH pc <- pcA, todo <- todoA, goal <- goalA, base <- baseA, errs <- errsA, result <- resultA
PB == INSTANCE ReconcileSettleProofs
        WITH pc <- pcB, todo <- todoB, goal <- goalB, base <- baseB, errs <- errsB, result <- resultB

\* Under way, or ended with exit 0.
LiveA == pcA = "apply" \/ (pcA = "idle" /\ resultA = "ok")
LiveB == pcB = "apply" \/ (pcB = "idle" /\ resultB = "ok")

\* Each run keeps to its input, and together they deal with every difference.
Runs == PA!IInv /\ PB!IInv /\ PA!FromInputs /\ PA!Sound /\ PB!Sound
Joint ==
    LiveA /\ LiveB /\ goalA = goalB =>
        /\ goalA \in Inputs
        /\ PA!Settled(goalA, todoA \cup todoB, installed, files, dirs, secrets)

(***************************************************************************)
(* The two instances are runs of Reconcile.                                *)
(***************************************************************************)
LEMMA AssumedA ==
    /\ PA!UnitTypesDisjoint /\ PA!MountsDisjoint /\ PA!FaultsBounded /\ PA!NoneIsFresh
    /\ PA!InputsTyped /\ PA!InputsWhole
  BY AsInReconcile
     DEF A!UnitTypesDisjoint, PA!UnitTypesDisjoint, A!MountsDisjoint, PA!MountsDisjoint,
         A!FaultsBounded, PA!FaultsBounded,
         A!NoneIsFresh, PA!NoneIsFresh, A!InputsTyped, PA!InputsTyped, A!InputsWhole,
         PA!InputsWhole, A!Resource, PA!Resource, A!Unit, PA!Unit, A!Stored, PA!Stored, A!Maybe,
         PA!Maybe, A!UnitFile, PA!UnitFile, A!FileMap, PA!FileMap, A!DirMap, PA!DirMap, A!Made,
         PA!Made, A!Snapshot, PA!Snapshot, A!Input, PA!Input

\* The same for the other instance.
LEMMA AssumedB ==
    /\ PB!UnitTypesDisjoint /\ PB!MountsDisjoint /\ PB!FaultsBounded /\ PB!NoneIsFresh
    /\ PB!InputsTyped /\ PB!InputsWhole
  BY AsInReconcile
     DEF A!UnitTypesDisjoint, PB!UnitTypesDisjoint, A!MountsDisjoint, PB!MountsDisjoint,
         A!FaultsBounded, PB!FaultsBounded,
         A!NoneIsFresh, PB!NoneIsFresh, A!InputsTyped, PB!InputsTyped, A!InputsWhole,
         PB!InputsWhole, A!Resource, PB!Resource, A!Unit, PB!Unit, A!Stored, PB!Stored, A!Maybe,
         PB!Maybe, A!UnitFile, PB!UnitFile, A!FileMap, PB!FileMap, A!DirMap, PB!DirMap, A!Made,
         PB!Made, A!Snapshot, PB!Snapshot, A!Input, PB!Input

\* What A does in TwoRuns it does in ReconcileSettleProofs.
LEMMA RunA ==
    /\ A!Init <=> PA!Init
    /\ \A in : (A!Plan(in) <=> PA!Plan(in)) /\ (A!Refuse(in) <=> PA!Refuse(in))
    /\ A!ApplyStep <=> PA!ApplyStep
    /\ A!Reboot <=> PA!Reboot
    /\ \A c : (A!ContainerExit(c) <=> PA!ContainerExit(c)) /\ (A!AutoRestart(c) <=> PA!AutoRestart(c))
    /\ \A in : A!OnDisk(in) <=> PA!OnDisk(in)
<1> USE DEF A!Resource, PA!Resource, A!Unit, PA!Unit, A!Stored, PA!Stored, A!Input, PA!Input,
            A!Torn, PA!Torn, A!disk, PA!disk, A!podman, PA!podman, A!systemd, PA!systemd, A!host,
            PA!host, A!run, PA!run, A!Order, PA!Order, A!OpRank, PA!OpRank, A!Ops, PA!Ops,
            A!ItemOps, PA!ItemOps, A!Slot, PA!Slot, A!SweepSlot, PA!SweepSlot, A!Precedes,
            PA!Precedes, A!Desired, PA!Desired, A!Containers, PA!Containers, A!Builds, PA!Builds,
            A!Rendered, PA!Rendered, A!StripRestartNeutralOptions, PA!StripRestartNeutralOptions,
            A!IsChanged, PA!IsChanged, A!MeaningfullyChanged, PA!MeaningfullyChanged,
            A!ChangedFiles, PA!ChangedFiles, A!StaleFiles, PA!StaleFiles, A!ChangedDirs,
            PA!ChangedDirs, A!StaleDirs, PA!StaleDirs, A!FilesDiffer, PA!FilesDiffer,
            A!ChangedSecrets, PA!ChangedSecrets, A!StaleSecrets, PA!StaleSecrets, A!Recreated,
            PA!Recreated, A!PostRenderValid, PA!PostRenderValid, A!VolumeChangeRefused,
            PA!VolumeChangeRefused, A!Plannable, PA!Plannable, A!IsRunning, PA!IsRunning,
            A!NeedsRestart, PA!NeedsRestart, A!PlanLifecycle, PA!PlanLifecycle, A!Stale, PA!Stale,
            A!IsUnitRemovalAllowed, PA!IsUnitRemovalAllowed, A!SkippedContainerReferences,
            PA!SkippedContainerReferences, A!Pruned, PA!Pruned, A!Reclaimed, PA!Reclaimed,
            A!MissingImages, PA!MissingImages, A!WithLifecycle, PA!WithLifecycle,
            A!StopSystemdServices, PA!StopSystemdServices, A!NoFiles, PA!NoFiles, A!Wiped, PA!Wiped,
            A!FileOps, PA!FileOps, A!UnitOps, PA!UnitOps, A!ServiceOps, PA!ServiceOps, A!BuildPlan,
            PA!BuildPlan, A!Generated, PA!Generated, A!Active, PA!Active, A!Fresh, PA!Fresh,
            A!Implicit, PA!Implicit, A!ResourcesAfterStart, PA!ResourcesAfterStart, A!CanRun,
            PA!CanRun, A!CanStart, PA!CanStart, A!ServiceStarts, PA!ServiceStarts, A!StoppedWith,
            PA!StoppedWith, A!ServiceStops, PA!ServiceStops, A!Fault, PA!Fault, A!Due, PA!Due,
            A!Done, PA!Done, A!NotDone, PA!NotDone, A!Fails, PA!Fails, A!Exec, PA!Exec, A!ExecUnit,
            PA!ExecUnit, A!Plan, PA!Plan, A!Refuse, PA!Refuse, A!PullPodmanImage,
            PA!PullPodmanImage, A!StopSystemdService, PA!StopSystemdService, A!SetFile, PA!SetFile,
            A!FilesWritten, PA!FilesWritten, A!WriteFsContainerConfigFile,
            PA!WriteFsContainerConfigFile, A!DeleteFsContainerConfigFile,
            PA!DeleteFsContainerConfigFile, A!DeleteFsContainerConfig, PA!DeleteFsContainerConfig,
            A!WriteFsContainerConfigDir, PA!WriteFsContainerConfigDir, A!DeleteFsContainerConfigDir,
            PA!DeleteFsContainerConfigDir, A!WriteFsBuildContextFile, PA!WriteFsBuildContextFile,
            A!DeleteFsBuildContextFile, PA!DeleteFsBuildContextFile, A!DeleteFsBuildContext,
            PA!DeleteFsBuildContext, A!DeletePodmanSecret, PA!DeletePodmanSecret,
            A!UpsertPodmanSecret, PA!UpsertPodmanSecret, A!WriteFsQuadletUnitFile,
            PA!WriteFsQuadletUnitFile, A!DeleteFsQuadletUnitFile, PA!DeleteFsQuadletUnitFile,
            A!InUse, PA!InUse, A!CannotRemove, PA!CannotRemove, A!Remove, PA!Remove, A!DeletePodmanVolume,
            PA!DeletePodmanVolume, A!DeletePodmanNetwork, PA!DeletePodmanNetwork,
            A!DeletePodmanImage, PA!DeletePodmanImage, A!DaemonReload, PA!DaemonReload,
            A!ReloadSystemdService, PA!ReloadSystemdService, A!StartSystemdService,
            PA!StartSystemdService, A!Finish, PA!Finish, A!Ends, PA!Ends, A!Crash, PA!Crash,
            A!Reboot, PA!Reboot, A!ContainerExit, PA!ContainerExit, A!AutoRestart, PA!AutoRestart,
            A!Init, PA!Init, A!ApplyStep, PA!ApplyStep, A!OnDisk, PA!OnDisk, A!Kept, PA!Kept
<1>1. A!Init <=> PA!Init
  OBVIOUS
<1>2. ASSUME NEW in
      PROVE  (A!Plan(in) <=> PA!Plan(in)) /\ (A!Refuse(in) <=> PA!Refuse(in))
  <2>1. A!Plan(in) <=> PA!Plan(in)
    OBVIOUS
  <2>2. A!Refuse(in) <=> PA!Refuse(in)
    OBVIOUS
  <2> QED
    BY ONLY <2>1, <2>2
<1>3. A!ApplyStep <=> PA!ApplyStep
  OBVIOUS
<1>4. A!Reboot <=> PA!Reboot
  OBVIOUS
<1>5. ASSUME NEW c
      PROVE  (A!ContainerExit(c) <=> PA!ContainerExit(c)) /\ (A!AutoRestart(c) <=> PA!AutoRestart(c))
  OBVIOUS
<1>6. ASSUME NEW in
      PROVE  A!OnDisk(in) <=> PA!OnDisk(in)
  OBVIOUS
<1> QED
  BY <1>1, <1>2, <1>3, <1>4, <1>5, <1>6

\* So does B.
LEMMA RunB ==
    /\ B!Init <=> PB!Init
    /\ \A in : (B!Plan(in) <=> PB!Plan(in)) /\ (B!Refuse(in) <=> PB!Refuse(in))
    /\ B!ApplyStep <=> PB!ApplyStep
<1> USE DEF B!Resource, PB!Resource, B!Unit, PB!Unit, B!Stored, PB!Stored, B!Input, PB!Input,
            B!Torn, PB!Torn, B!disk, PB!disk, B!podman, PB!podman, B!systemd, PB!systemd, B!host,
            PB!host, B!run, PB!run, B!Order, PB!Order, B!OpRank, PB!OpRank, B!Ops, PB!Ops,
            B!ItemOps, PB!ItemOps, B!Slot, PB!Slot, B!SweepSlot, PB!SweepSlot, B!Precedes,
            PB!Precedes, B!Desired, PB!Desired, B!Containers, PB!Containers, B!Builds, PB!Builds,
            B!Rendered, PB!Rendered, B!StripRestartNeutralOptions, PB!StripRestartNeutralOptions,
            B!IsChanged, PB!IsChanged, B!MeaningfullyChanged, PB!MeaningfullyChanged,
            B!ChangedFiles, PB!ChangedFiles, B!StaleFiles, PB!StaleFiles, B!ChangedDirs,
            PB!ChangedDirs, B!StaleDirs, PB!StaleDirs, B!FilesDiffer, PB!FilesDiffer,
            B!ChangedSecrets, PB!ChangedSecrets, B!StaleSecrets, PB!StaleSecrets, B!Recreated,
            PB!Recreated, B!PostRenderValid, PB!PostRenderValid, B!VolumeChangeRefused,
            PB!VolumeChangeRefused, B!Plannable, PB!Plannable, B!IsRunning, PB!IsRunning,
            B!NeedsRestart, PB!NeedsRestart, B!PlanLifecycle, PB!PlanLifecycle, B!Stale, PB!Stale,
            B!IsUnitRemovalAllowed, PB!IsUnitRemovalAllowed, B!SkippedContainerReferences,
            PB!SkippedContainerReferences, B!Pruned, PB!Pruned, B!Reclaimed, PB!Reclaimed,
            B!MissingImages, PB!MissingImages, B!WithLifecycle, PB!WithLifecycle,
            B!StopSystemdServices, PB!StopSystemdServices, B!NoFiles, PB!NoFiles, B!Wiped, PB!Wiped,
            B!FileOps, PB!FileOps, B!UnitOps, PB!UnitOps, B!ServiceOps, PB!ServiceOps, B!BuildPlan,
            PB!BuildPlan, B!Generated, PB!Generated, B!Active, PB!Active, B!Fresh, PB!Fresh,
            B!Implicit, PB!Implicit, B!ResourcesAfterStart, PB!ResourcesAfterStart, B!CanRun,
            PB!CanRun, B!CanStart, PB!CanStart, B!ServiceStarts, PB!ServiceStarts, B!StoppedWith,
            PB!StoppedWith, B!ServiceStops, PB!ServiceStops, B!Fault, PB!Fault, B!Due, PB!Due,
            B!Done, PB!Done, B!NotDone, PB!NotDone, B!Fails, PB!Fails, B!Exec, PB!Exec, B!ExecUnit,
            PB!ExecUnit, B!Plan, PB!Plan, B!Refuse, PB!Refuse, B!PullPodmanImage,
            PB!PullPodmanImage, B!StopSystemdService, PB!StopSystemdService, B!SetFile, PB!SetFile,
            B!FilesWritten, PB!FilesWritten, B!WriteFsContainerConfigFile,
            PB!WriteFsContainerConfigFile, B!DeleteFsContainerConfigFile,
            PB!DeleteFsContainerConfigFile, B!DeleteFsContainerConfig, PB!DeleteFsContainerConfig,
            B!WriteFsContainerConfigDir, PB!WriteFsContainerConfigDir, B!DeleteFsContainerConfigDir,
            PB!DeleteFsContainerConfigDir, B!WriteFsBuildContextFile, PB!WriteFsBuildContextFile,
            B!DeleteFsBuildContextFile, PB!DeleteFsBuildContextFile, B!DeleteFsBuildContext,
            PB!DeleteFsBuildContext, B!DeletePodmanSecret, PB!DeletePodmanSecret,
            B!UpsertPodmanSecret, PB!UpsertPodmanSecret, B!WriteFsQuadletUnitFile,
            PB!WriteFsQuadletUnitFile, B!DeleteFsQuadletUnitFile, PB!DeleteFsQuadletUnitFile,
            B!InUse, PB!InUse, B!CannotRemove, PB!CannotRemove, B!Remove, PB!Remove, B!DeletePodmanVolume,
            PB!DeletePodmanVolume, B!DeletePodmanNetwork, PB!DeletePodmanNetwork,
            B!DeletePodmanImage, PB!DeletePodmanImage, B!DaemonReload, PB!DaemonReload,
            B!ReloadSystemdService, PB!ReloadSystemdService, B!StartSystemdService,
            PB!StartSystemdService, B!Finish, PB!Finish, B!Ends, PB!Ends, B!Crash, PB!Crash,
            B!Reboot, PB!Reboot, B!ContainerExit, PB!ContainerExit, B!AutoRestart, PB!AutoRestart,
            B!Init, PB!Init, B!ApplyStep, PB!ApplyStep
<1>1. B!Init <=> PB!Init
  OBVIOUS
<1>2. ASSUME NEW in
      PROVE  (B!Plan(in) <=> PB!Plan(in)) /\ (B!Refuse(in) <=> PB!Refuse(in))
  <2>1. B!Plan(in) <=> PB!Plan(in)
    OBVIOUS
  <2>2. B!Refuse(in) <=> PB!Refuse(in)
    OBVIOUS
  <2> QED
    BY ONLY <2>1, <2>2
<1>3. B!ApplyStep <=> PB!ApplyStep
  OBVIOUS
<1> QED
  BY <1>1, <1>2, <1>3

(***************************************************************************)
(* What one run does to the other.                                         *)
(***************************************************************************)

\* Both run on one host.
LEMMA OneHost ==
    /\ PA!HostInv' <=> PB!HostInv'
    /\ PA!FromInputs <=> PB!FromInputs
    /\ PA!FromInputs' <=> PB!FromInputs'
    /\ \A g, ops, ins, fs, ds, ss :
          PA!Settled(g, ops, ins, fs, ds, ss) <=> PB!Settled(g, ops, ins, fs, ds, ss)
<1> USE DEF PA!Resource, PB!Resource, PA!Unit, PB!Unit, PA!Stored, PB!Stored, PA!Maybe, PB!Maybe
<1>1. PA!HostInv' <=> PB!HostInv'
  BY DEF PA!HostInv, PB!HostInv, PA!HostTyped, PB!HostTyped, PA!ActiveWasCreated,
         PB!ActiveWasCreated, PA!Active, PB!Active, PA!UnitFile, PB!UnitFile, PA!FileMap, PB!FileMap,
         PA!DirMap, PB!DirMap, PA!Made, PB!Made, PA!Snapshot, PB!Snapshot
<1>2. (PA!FromInputs <=> PB!FromInputs) /\ (PA!FromInputs' <=> PB!FromInputs')
  BY DEF PA!FromInputs, PB!FromInputs, PA!Rendered, PB!Rendered
<1>3. ASSUME NEW g, NEW ops, NEW ins, NEW fs, NEW ds, NEW ss
      PROVE  PA!Settled(g, ops, ins, fs, ds, ss) <=> PB!Settled(g, ops, ins, fs, ds, ss)
  BY DEF PA!Settled, PB!Settled, PA!Rendered, PB!Rendered, PA!Task, PB!Task
<1> QED
  BY <1>1, <1>2, <1>3

\* What the first invocation does keeps the types of the second,
LEMMA KeepsB ==
    ASSUME PA!IInv', PB!IInv, UNCHANGED runB \/ B!Ends
    PROVE  PB!IInv'
<1>1. PB!HostInv'
  BY OneHost DEF PA!IInv
<1>2. faults' \in 0..MaxFaults
  BY DEF PA!IInv, PA!RunInv, PA!RunTyped
<1>3. UNCHANGED <<goalB, baseB, errsB>>
  BY DEF runB, B!Ends
<1>4. PB!RunInv'
  <2>1. CASE UNCHANGED runB
    BY <1>2, <2>1 DEF runB, PB!IInv, PB!RunInv, PB!RunTyped, PB!PermitGiven
  <2>2. CASE B!Ends
    BY <1>2, <2>2 DEF B!Ends, PB!IInv, PB!RunInv, PB!RunTyped, PB!PermitGiven
  <2> QED
    BY <2>1, <2>2
<1> QED
  BY <1>1, <1>4 DEF PB!IInv

\* and the other way round.
LEMMA KeepsA ==
    ASSUME PB!IInv', PA!IInv, UNCHANGED runA
    PROVE  PA!IInv'
<1>1. PA!HostInv'
  BY OneHost DEF PB!IInv
<1>2. faults' \in 0..MaxFaults
  BY DEF PB!IInv, PB!RunInv, PB!RunTyped
<1>3. PA!RunInv'
  BY <1>2 DEF runA, PA!IInv, PA!RunInv, PA!RunTyped, PA!PermitGiven
<1> QED
  BY <1>1, <1>3 DEF PA!IInv

\* Neither writes what no input has.
LEMMA RunsStay ==
    ASSUME PA!NoFailures, PA!KeepsItsDirs, PA!LocksAreKept, Runs, [Next]_vars
    PROVE  Runs'
<1>1. PB!NoFailures /\ PB!KeepsItsDirs /\ PB!LocksAreKept
  BY DEF PA!NoFailures, PB!NoFailures, PA!KeepsItsDirs, PB!KeepsItsDirs, PA!LocksAreKept,
         PB!LocksAreKept, PA!Containers, PB!Containers, PA!Desired, PB!Desired, PA!Unit, PB!Unit,
         PA!Resource, PB!Resource, PA!NoFiles, PB!NoFiles
<1>2. CASE PlanA
  <2>1. PICK in \in Inputs : PA!Plan(in) \/ PA!Refuse(in)
    BY <1>2, RunA DEF PlanA
  <2>2. PA!IInv'
    BY <2>1, AssumedA, PA!NextKeeps DEF Runs, PA!Next
  <2>3. PB!IInv'
    BY <1>2, <2>2, KeepsB DEF Runs, PlanA
  <2>4. PA!FromInputs' /\ PA!Sound'
    <3>1. installed' = installed
      BY <2>1 DEF PA!Plan, PA!Refuse, PA!host, PA!disk
    <3>2. PA!FromInputs'
      BY <3>1 DEF Runs, PA!FromInputs, PA!Rendered
    <3>3. CASE PA!Plan(in)
      BY <2>1, <3>2, <3>3, AssumedA, PA!PlanSettles DEF Runs
    <3>4. CASE PA!Refuse(in)
      BY <3>2, <3>4 DEF PA!Refuse, PA!Sound
    <3> QED
      BY <2>1, <3>3, <3>4, <3>2
  <2>5. PB!Sound'
    BY <1>2 DEF Runs, PlanA, runB, PB!Sound, PB!Licensed
  <2> QED
    BY <2>2, <2>3, <2>4, <2>5 DEF Runs
<1>3. CASE PlanB
  <2>1. PICK in \in Inputs : PB!Plan(in) \/ PB!Refuse(in)
    BY <1>3, RunB DEF PlanB
  <2>2. PB!IInv'
    BY <2>1, AssumedB, PB!NextKeeps DEF Runs, PB!Next
  <2>3. PA!IInv'
    BY <1>3, <2>2, KeepsA DEF Runs, PlanB
  <2>4. PA!FromInputs'
    <3>1. installed' = installed
      BY <2>1 DEF PB!Plan, PB!Refuse, PB!host, PB!disk
    <3> QED
      BY <3>1 DEF Runs, PA!FromInputs, PA!Rendered
  <2>5. PB!Sound'
    <3>1. CASE PB!Plan(in)
      BY <1>1, <2>1, <3>1, AssumedB, OneHost, PB!PlanSettles DEF Runs
    <3>2. CASE PB!Refuse(in)
      BY <3>2 DEF PB!Refuse, PB!Sound
    <3> QED
      BY <2>1, <3>1, <3>2
  <2>6. PA!Sound'
    BY <1>3 DEF Runs, PlanB, runA, PA!Sound, PA!Licensed
  <2> QED
    BY <2>2, <2>3, <2>4, <2>5, <2>6 DEF Runs
<1>4. CASE ApplyA
  <2>1. PA!ApplyStep /\ UNCHANGED runB
    BY <1>4, RunA DEF ApplyA
  <2>2. PA!IInv'
    BY <2>1, AssumedA, PA!NextKeeps DEF Runs, PA!Next
  <2>3. PB!IInv' /\ PB!Sound'
    BY <2>1, <2>2, KeepsB DEF Runs, runB, PB!Sound, PB!Licensed
  <2>4. PA!FromInputs' /\ PA!Sound'
    BY <2>1, AssumedA, PA!FromInputsStays, PA!BesideStep DEF Runs
  <2> QED
    BY <2>2, <2>3, <2>4 DEF Runs
<1>5. CASE ApplyB
  <2>1. PB!ApplyStep /\ UNCHANGED runA
    BY <1>5, RunB DEF ApplyB
  <2>2. PB!IInv'
    BY <2>1, AssumedB, PB!NextKeeps DEF Runs, PB!Next
  <2>3. PA!IInv' /\ PA!Sound'
    BY <2>1, <2>2, KeepsA DEF Runs, runA, PA!Sound, PA!Licensed
  <2>4. PB!FromInputs' /\ PB!Sound'
    BY <1>1, <2>1, AssumedB, OneHost, PB!FromInputsStays, PB!BesideStep DEF Runs
  <2> QED
    BY <2>2, <2>3, <2>4, OneHost DEF Runs
<1>6. CASE Reboot
  <2>1. PA!Reboot /\ B!Ends
    BY <1>6, RunA DEF Reboot
  <2>2. PA!IInv'
    BY <2>1, AssumedA, PA!NextKeeps DEF Runs, PA!Next
  <2>3. PB!IInv'
    BY <2>1, <2>2, KeepsB DEF Runs
  <2>4. PA!FromInputs'
    BY <2>1 DEF Runs, PA!Reboot, PA!disk, PA!FromInputs, PA!Rendered
  <2>5. PA!Sound' /\ PB!Sound'
    BY <2>1 DEF PA!Reboot, PA!Ends, B!Ends, PA!Sound, PB!Sound
  <2> QED
    BY <2>2, <2>3, <2>4, <2>5 DEF Runs
<1>7. ASSUME NEW c \in Container, ContainerExit(c) \/ AutoRestart(c)
      PROVE  Runs'
  <2>1. (PA!ContainerExit(c) \/ PA!AutoRestart(c)) /\ UNCHANGED runB
    BY <1>7, RunA DEF ContainerExit, AutoRestart
  <2>2. PA!IInv'
    BY <2>1, AssumedA, PA!NextKeeps DEF Runs, PA!Next
  <2>3. PB!IInv'
    BY <2>1, <2>2, KeepsB DEF Runs
  <2>4. PA!FromInputs'
    BY <2>1 DEF Runs, PA!ContainerExit, PA!AutoRestart, PA!disk, PA!FromInputs, PA!Rendered
  <2>5. PA!Sound' /\ PB!Sound'
    BY <2>1 DEF Runs, PA!ContainerExit, PA!AutoRestart, PA!run, runB, PA!Sound, PB!Sound,
                PA!Licensed, PB!Licensed
  <2> QED
    BY <2>2, <2>3, <2>4, <2>5 DEF Runs
<1>8. CASE UNCHANGED vars
  <2>1. UNCHANGED PA!vars /\ UNCHANGED runA /\ UNCHANGED runB
    BY <1>8 DEF vars, host, runA, runB, PA!vars
  <2>2. PA!IInv'
    BY <2>1, AssumedA, PA!NextKeeps DEF Runs
  <2>3. PB!IInv'
    BY <2>1, <2>2, KeepsB DEF Runs
  <2>4. PA!FromInputs'
    BY <2>1 DEF Runs, PA!vars, PA!FromInputs, PA!Rendered
  <2>5. PA!Sound' /\ PB!Sound'
    BY <2>1 DEF Runs, runA, runB, PA!Sound, PB!Sound, PA!Licensed, PB!Licensed
  <2> QED
    BY <2>2, <2>3, <2>4, <2>5 DEF Runs
<1> QED
  BY <1>2, <1>3, <1>4, <1>5, <1>6, <1>7, <1>8 DEF Next

\* While both are after the same specs, one of them has every difference to deal with.
LEMMA JointStays ==
    ASSUME PA!NoFailures, PA!KeepsItsDirs, PA!LocksAreKept, Runs, Joint, [Next]_vars
    PROVE  Joint'
<1> SUFFICES ASSUME LiveA', LiveB', goalA' = goalB'
             PROVE  /\ goalA' \in Inputs
                    /\ PA!Settled(goalA', todoA' \cup todoB', installed', files', dirs', secrets')
  BY DEF Joint
<1> DEFINE Now == PA!Settled(goalA, todoA \cup todoB, installed, files, dirs, secrets)
<1>1. PB!NoFailures /\ PB!KeepsItsDirs /\ PB!LocksAreKept
  BY DEF PA!NoFailures, PB!NoFailures, PA!KeepsItsDirs, PB!KeepsItsDirs, PA!LocksAreKept,
         PB!LocksAreKept, PA!Containers, PB!Containers, PA!Desired, PB!Desired, PA!Unit, PB!Unit,
         PA!Resource, PB!Resource, PA!NoFiles, PB!NoFiles
<1>2. CASE PlanA
  <2>1. PICK in \in Inputs : PA!Plan(in) \/ PA!Refuse(in)
    BY <1>2, RunA DEF PlanA
  <2>2. PA!Plan(in)
    BY <2>1 DEF PA!Refuse, LiveA
  <2>3. goalA' = in /\ PA!Settled(in, todoA' \cup todoB, installed', files', dirs', secrets')
    BY <2>2, AssumedA, PA!PlanSettles DEF Runs
  <2>4. todoB' = todoB
    BY <1>2 DEF PlanA, runB
  <2> QED
    BY <2>3, <2>4
<1>3. CASE PlanB
  <2>1. PICK in \in Inputs : PB!Plan(in) \/ PB!Refuse(in)
    BY <1>3, RunB DEF PlanB
  <2>2. PB!Plan(in)
    BY <2>1 DEF PB!Refuse, LiveB
  <2>3. goalB' = in /\ PB!Settled(in, todoB' \cup todoA, installed', files', dirs', secrets')
    BY <1>1, <2>2, AssumedB, OneHost, PB!PlanSettles DEF Runs
  <2>4. todoA' = todoA /\ todoB' \cup todoA = todoA' \cup todoB'
    BY <1>3 DEF PlanB, runA
  <2> QED
    BY <2>3, <2>4, OneHost
<1>4. CASE ApplyA
  <2>1. PA!ApplyStep /\ UNCHANGED runB
    BY <1>4, RunA DEF ApplyA
  <2>2. /\ pcA = "apply" /\ goalA' = goalA
        /\ Now => PA!Settled(goalA, todoA' \cup todoB, installed', files', dirs', secrets')
    BY <2>1, AssumedA, PA!BesideStep DEF Runs
  <2>3. goalA \in Inputs /\ Now
    BY <2>1, <2>2 DEF Joint, LiveA, LiveB, runB
  <2> QED
    BY <2>1, <2>2, <2>3 DEF runB
<1>5. CASE ApplyB
  <2>1. PB!ApplyStep /\ UNCHANGED runA
    BY <1>5, RunB DEF ApplyB
  <2>2. /\ pcB = "apply" /\ goalB' = goalB
        /\ PB!Settled(goalB, todoB \cup todoA, installed, files, dirs, secrets) =>
              PB!Settled(goalB, todoB' \cup todoA, installed', files', dirs', secrets')
    BY <1>1, <2>1, AssumedB, PB!BesideStep DEF Runs
  <2>3. goalA \in Inputs /\ Now
    BY <2>1, <2>2 DEF Joint, LiveA, LiveB, runA
  <2>4. goalA = goalB /\ todoA \cup todoB = todoB \cup todoA /\ todoA' \cup todoB' = todoB' \cup todoA
    BY <2>1, <2>2 DEF runA
  <2>5. PB!Settled(goalB, todoB' \cup todoA, installed', files', dirs', secrets')
    BY <2>2, <2>3, <2>4, OneHost
  <2>6. PA!Settled(goalA, todoA' \cup todoB', installed', files', dirs', secrets')
    BY <2>4, <2>5, OneHost
  <2> QED
    BY <2>1, <2>3, <2>6 DEF runA
<1>6. CASE Reboot
  BY <1>6, RunA DEF Reboot, PA!Reboot, PA!Ends, LiveA
<1>7. CASE (\E c \in Container : ContainerExit(c) \/ AutoRestart(c)) \/ UNCHANGED vars
  <2>1. UNCHANGED <<installed, files, dirs, secrets>> /\ UNCHANGED runA /\ UNCHANGED runB
    BY <1>7, RunA
       DEF ContainerExit, AutoRestart, PA!ContainerExit, PA!AutoRestart, PA!disk, PA!podman, PA!run,
           runA, vars, host
  <2> QED
    BY <2>1 DEF runA, runB, Joint, LiveA, LiveB
<1> QED
  BY <1>2, <1>3, <1>4, <1>5, <1>6, <1>7 DEF Next

\* However two invocations that both succeed interleave, and whatever specs the runs
\* before them had: if they had the same specs the disk and the secrets are those of
\* the specs. It takes that no operation fails of itself, that no specs drop the last
\* config file of a container that has configDirs, and that none drop a container that
\* some specs lock.
THEOREM SameSpecs ==
    ASSUME PA!NoFailures, PA!KeepsItsDirs, PA!LocksAreKept
    PROVE  Spec => []SameSpecsSettle
<1>1. Init => Runs /\ Joint
  <2> SUFFICES ASSUME A!Init, B!Init PROVE Runs /\ Joint
    BY DEF Init
  <2>1. PA!Init /\ PB!Init
    BY RunA, RunB
  <2>2. PA!IInv /\ PB!IInv
    BY <2>1, AssumedA, AssumedB, PA!InitKeeps, PB!InitKeeps
  <2>3. PA!FromInputs
    BY <2>1 DEF PA!Init, PA!FromInputs
  <2>4. PA!Sound /\ PB!Sound
    BY <2>1 DEF PA!Init, PB!Init, PA!Sound, PB!Sound
  <2>5. Joint
    BY <2>1 DEF PA!Init, Joint, LiveA
  <2> QED
    BY <2>2, <2>3, <2>4, <2>5 DEF Runs
<1>2. Runs /\ Joint => SameSpecsSettle
  <2> SUFFICES ASSUME Runs, Joint, BothOk, goalA = goalB
               PROVE  A!OnDisk(goalA)
    BY DEF SameSpecsSettle
  <2>1. todoA \cup todoB = {}
    BY DEF Runs, BothOk, PA!IInv, PB!IInv, PA!RunInv, PB!RunInv
  <2>2. goalA \in Inputs /\ PA!Settled(goalA, {}, installed, files, dirs, secrets)
    BY <2>1 DEF Joint, BothOk, LiveA, LiveB
  <2>3. PA!OnDisk(goalA)
    BY <2>2, AssumedA, PA!SettledOnDisk DEF Runs
  <2> QED
    BY <2>3, RunA
<1>3. Runs /\ Joint /\ [Next]_vars => Runs' /\ Joint'
  BY RunsStay, JointStays
<1> QED
  BY <1>1, <1>2, <1>3, PTL DEF Spec
=============================================================================
