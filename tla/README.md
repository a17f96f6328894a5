# Verification of syslet

syslet is a one-shot reconciler for a single host: each invocation reads JSON
specs, renders them to podman quadlet units, compares them with what is installed
and changes the host until it matches. There is no daemon and no state file. What
one run leaves behind, on disk, in podman and in systemd, is all the next one
knows. The correctness questions are therefore about *sequences of runs*: what a
run may break while it works, what it leaves when something fails in the middle,
and whether the next run sees that there is something left to do.

This directory holds TLA+ models of that behaviour, TLC runs that check them on
small instances, and proofs (TLAPS) of what should hold for every instance.

## Inventory

| component | state it keeps | operations | hard behaviour |
|---|---|---|---|
| planner (`internal/syslet/plan*.go`) | none: reads the host, returns a plan or an error | `BuildPlan` and the `buildPlan*` functions | a diff has no memory: an operation is planned again only if its effect is visible in what the diff reads |
| applier (`apply.go`, `apply_runner.go`) | the report of failed units | 20 kinds of operation in a fixed global order | partial failure, abort after pulls and after daemon-reload, death between operations |
| config file and configDir store (`filestore/containerstore.go`) | `/etc/containers/systemd`-side files, version directories and links | write, delete, wipe a container, versioned swap | torn writes, interrupted swap, readers inside running containers |
| build context store (`filestore/buildstore.go`) | files of builds | write, delete, wipe | same |
| systemd client (`systemd/client.go`) | unit files; systemd's own state | start, stop, reload, daemon-reload, unit files | units stop with what they require, services restart by themselves, generated units change only on daemon-reload |
| podman client (`podman/client.go`) | images, volumes, networks, secrets | pull, remove, create secret | removals fail on what is missing or in use |
| renderer (`internal/render`) | none | unit options, markers, the restart-neutral comparison | a wrong comparison restarts, or fails to restart |
| validation (`internal/validate`) | a staging directory | checks of specs, references, generated units | none of its own |
| secrets and keys (`sops`, `age`) | append-only key file | decrypt, append a key | the host's key is rotated or lost |
| spec loading (`api`, `loader`) | the record of a stdin apply | decode, persist, convert options | the record is written before validation; maps have no order |
| command line (`cmd/syslet`) | none | one invocation; `--diff` | two invocations at once, no lock |
| output (`display.go`), external runners (`quadlet.go`, `analyze.go`, `journal.go`), CUE schema | none | formatting, wrappers | none |

They interact by calls within one process: `main` caches the age key, loads the specs, `BuildPlan`
reads the three stores and the renderer's units and returns a list of operations,
`Apply` executes them against the stores, podman and systemd. Concurrency comes
from outside: systemd starts, restarts and stops services in the middle of a run,
containers read their configDirs at any time, the process may be killed, the host
may reboot.

What makes each correct: the planner's diff must be complete (every difference
that matters is planned), exact (nothing is planned twice) and safe (nothing is
removed without a permit); the order of the applier must make every operation
executable, keep downtime small and never change anything under a container that
runs with it; the stores must never expose a half-written state; and what a failed
run leaves must be visible to the next plan.

## Modules

| module | contents |
|---|---|
| `Reconcile` | the host, the plan, one action per operation, faults, properties |
| `Promises` | statements of the documentation the code does not keep |
| `MCReconcile` | the inputs of the runs |
| `ReconcileProofs` | the invariant of `Reconcile` and what follows from it alone |
| `ReconcileOrderProofs` | proofs about `Reconcile` that rest on the order of operations |
| `ReconcileSettleProofs` | proofs about what a run that succeeds leaves, and lemmas about a run whose host another one changes |
| `ReconcileServiceProofs` | proofs about what the services of the host run on: volumes, what containers were created with, which operations are possible |
| `TwoRuns`, `MCTwoRuns` | two invocations, each an instance of `Reconcile`, on one host |
| `TwoRunsProofs` | the proof that two runs settle; it uses the lemmas of `ReconcileSettleProofs` for each of them |
| `ConfigDir`, `MCConfigDir` | one configDir, system call by system call, with its properties and one promise that fails |
| `Directory` | what a configDir promises its readers; `ConfigDir` implements it |
| `ConfigDirProofs` | the proofs about `ConfigDir`, the refinement among them |
| `Units` | from a spec's JSON to the unit file and what a later run reads back: pure operators |
| `Invocation`, `MCInvocation` | one invocation from the command line to the host: keys, record, specs, secrets, rendering, and the containers that result |
| `UnitsProofs` | lemmas about lists of values: sorting, merging, and what is read back from a rendered unit |
| `InvocationProofs` | the proofs about `Invocation` |

A definition `Mutant...` is a wrong variant of the one after it. `Reconcile` follows
the operations of a plan and everything that may go wrong between them, with units
reduced to what the planner tells apart; `Invocation` follows the contents, with the
operations of a plan reduced to one step. `TwoRuns` composes two `Reconcile`s over
shared host variables, `Invocation` extends `Units`.

### Reconcile

State. `installed`, `files` and `dirs` are the disk; `secrets`, `images` and
`resource` (volumes, networks and built images) podman; `loaded` (the services
systemd generated at its last daemon-reload), `status` and `ran` (what each
container was created with) systemd. `pc`, `todo`, `goal`, `base`, `errs` and
`result` are the run: its phase, the operations left, its input, the unit files
when it planned (used by properties alone), the failed units, its exit.

A unit is a record of what the planner can tell apart: `def` (everything that is
only compared), the two markers of `[X-Syslet]`, the desired state, whether it has
a reload command, what it refers to, and its mounts. Contents are model values.

`Plan(in)` is a whole `BuildPlan`: `todo` becomes `BuildPlan(in)`, a union of
`FileOps`, `UnitOps`, `ServiceOps`, pulls and secrets, computed by operators named
after the functions of the source (`NeedsRestart`, `PlanLifecycle`, `Pruned`,
`SkippedContainerReferences`, ...). `Refuse(in)` is a `PlanError`. The operations
are one action each, named after the field of `ApplyPlan`; an operation is `Due`
when no operation that precedes it in Apply's order (`Order`, `Precedes`) is left.
Operations of one kind and slot (two files of one container) may come in either
order: Go's map iteration and the order of specs decide that. Every operation may
fail; `Exec` drops the failure, `ExecUnit` records it, as in `apply_runner.go`. A
failed pull lets the other pulls be tried and aborts; a failed daemon-reload
aborts. `Finish` sets the exit.

The environment (section "Environment") is not in the repository and is modelled
from how the code drives it: quadlet generates services from the installed files
on a daemon-reload or a boot and skips a container that names a missing unit; a
start runs the inactive services it requires; a volume or network service makes
its resource if it is missing, a build service always builds; stopping a service
stops the containers that require it; podman refuses to remove what is missing or
used; a `Restart=always` service that fails is tried again by systemd.

`Crash` is the death of the process between operations, or inside the write of a
unit file, which then is torn (`afero.WriteFile` truncates in place): a torn file has no
markers, equals nothing, and may or may not parse. `Reboot`
regenerates and starts what is wanted at boot, `ContainerExit` and `AutoRestart`
happen by themselves.

Abstractions to know about: planning reads the host in one step; a start or stop is
one step, and a failed one leaves nothing half done; the effect of a failed start on
resources is left out; a configDir is one value here, and a failure may come before
or after its publication; config and build files change atomically; a oneshot is
never run by the model, as syslet never runs one; a neutral change (description,
restart delay) is a change of a marker; decryption, refusals by staging validation
and the legacy label of secrets are in `Invocation` only; waits for systemd jobs
always end.

### ConfigDir

`versions`, `data`, `tmp` and `links` are the version directories, the target of
`..data`, that of `..data-tmp` and the stable names. `Plan` compares as
`buildPlanUnitContainerConfigDirs` does, `WriteVersionedDirFile` .. `Pruned` are the
system calls of the configDir phase of `Apply` in their order, `RemoveDir` the
removal of the directory. Each may fail and the process may die after any of them,
in the middle of a file, or in the middle of a recursive removal. Two steps are several
calls: a file of a version comes with the version's directory (`DirMade`), and `MakeTmpLink`
makes the directory, removes an old `..data-tmp` and links; a failure or death leaves any
prefix of them (`PartlyLinked`). `View` is what a
container finds under the stable names. The wipe of the container's directory
(`RemoveUnit`) is in `Reconcile` only.

`Directory` says what the steps amount to for whoever reads behind `..data`: the
wanted files appear at once and whole (`Publish`), other names with them only after
something went wrong, and nothing is taken away before no input asks for the directory
(`Remove`). `ImplementsDirectory` is the refinement: `shown` is what `..data` leads to,
`disturbed` whether a fault has happened.

### TwoRuns

The host variables of `Reconcile` are shared, `pc`, `todo`, `goal`, `base`, `errs` and
`result` exist once for each invocation. `PlanA` and `ApplyA` are a step of the
first, `PlanB` and `ApplyB` of the second; a reboot ends both (`Reboot`), exits and
restarts of containers belong to the host.

### Units

Operators named after the functions of the source, in its order: `UnitValueFromRaw`
and the rule of each map-valued option (`MapRule`), `Loads` and the defaults of a spec,
`PreRender` with its validators, `ensureUnitOption` (Default), `forceUnitOption`
(Override), `Sorted`, `RenderedUnit`, and `StripRestartNeutralOptions`, `FindOptValue`
and the queries that read a file back. A unit file is a function from options to
sequences of values, since its text is sorted by section, key and value and so
determined by them; a value is the tuple of the pieces its text is put together from.

### Invocation

State. `sshKey` and `backoff` (whether systemd knows `RestartSteps=`) belong to the
host, `keyFile` is `/var/lib/syslet/key.txt`, `record` is `/etc/syslet/config.json`,
`store` podman's secrets (value and legacy label), `installed` the unit files, `running`
what each container was started with. `pc`, `diff`, `stdin` and `stream` are the
invocation; `ok`, `restarted`, `applied` and `decrypted` are used by properties alone.

Actions follow `main`: `Invoke` (`--diff` or not, stdin, a path, or the record),
`newDecryptor` or `NoDecryptor`, `LoadSpecs` (records the stream, then decodes it),
then `Refuse`, `DisplayPlan` or `Apply`. `Crash` may end it at any point, with a torn
record while that is written. `RotateHostKey` and `UpgradeSystemd` are the operator's.
`Rendering` is the result of the version probe, which may fail in any run.

Abstractions to know about: `Apply` is one step that succeeds and units do not refer
to each other (both are in `Reconcile`); staging validation is a refusal that may
happen to any plan that changes a unit file; names and paths of specs are well formed;
values of `desiredState` come in lower case; `Environment` values need no quoting; a
line of the key file is written whole.

## Runs

Bounds of `Reconcile`: up to two containers, one volume, one network, one build,
two values, two files per unit, one configDir, two images and two secrets. One of
each resource is enough for the interactions the planner has, since resources
interact only through the containers that name them; two files let one be dropped
while the other stays; two containers are needed when one is locked and the other
is not. `MaxFaults` bounds all faults together. Runs are not bounded: any input of
`Inputs` may follow any other, for ever.

| run | asks | faults |
|---|---|---|
| `undisturbed` | does a run that nothing disturbs succeed, converge, leave nothing for the next, and leave running what is up to date? | none |
| `config_recovery` | is success still truthful, and does a wanted container come up, when containers exit and the host reboots at any point? | 2 reboots or exits |
| `config_faults` | is anything rewritten under a running container; is a stop ever before the download? | 2 of any kind |
| `removal_faults` | is anything removed that no permit covers, over sequences that drop, lock, unlock and redefine units? Also the inductive invariant | 1 of any kind |
| `resource_crashes` | does a run that succeeds repair what runs that died left on disk and in the secret store; does a container ever run on a volume podman made up? | 2 crashes, reboots or exits |
| `config_dir` | what may a reader of a configDir see, and what does the next run find? Is it an atomic link? | 2 failures or deaths, versions up to 4 |
| `two_runs` | do two runs with the same specs settle on them, and does a container both want come up? | 1 reboot or exit |
| `invocation` | does what runs show the spec, does anything restart without cause, is anything planned twice, do markers and old keys hold? | deaths, failures of the version probe, refusals, key rotation: unbounded |

`two_runs` has one container with a file and a secret and three inputs: everything, a
change that drops the secret, and one that is refused. Two invocations suffice, since
each of them runs again and again. `invocation` has one container, one volume, one
secret key, two host keys and seven streams (the first spec; the same in other words,
locked and encrypted to the other key; a change of options and of the secret; a spec
that brings its own markers, which is refused; a stopped container in a directory; an
empty array). Containers do not interact in `Invocation`, so one is enough.

The container of `resource_crashes` has a file, a configDir and a secret besides the three
resources, and each of them changes in some input. In `removal_faults` a locked container
uses all three resources, and inputs drop it together with them. No input of `undisturbed` drops
a unit, and `UndisturbedRunSucceeds` sees what the report sees: failures that `ExecUnit`
records, as of the deletion of a changed network; a refused deletion of a volume, an image or a
secret is only logged.

Four more runs expect a violation, each of one statement quoted from the
documentation (`PROJECT.json`, "findings", which also has three statements that passing runs
contradict; see "Known divergences"):

- `recovers_from_failure`: a daemon-reload that failed once is never repeated
  (`NeedsReload` looks only at the unit files of this plan), so a new container
  never starts, however often the same specs are applied.
- `locked_keeps_running`: a locked container that lost its spec is stopped when its
  network changes.
- `files_exist_before_units`: dropping the last config file wipes the configDirs.
- `ok_run_shows_input`: links missing after a death are never made again.

Fairness. `FairSpec` (runs `config_recovery` and `recovers_from_failure`) assumes
that a run goes on until it ends (the loops of `Apply` are bounded and systemd
answers), that systemd keeps retrying a `Restart=always` service
(`StartLimitIntervalSec=0` is syslet's default, `render.go:103-116`), and that the
operator keeps applying. The last is no property of the code; it is the condition
under which the documentation promises recovery. Nothing is assumed of faults or of
which input comes next. `FairSpec` of `TwoRuns` assumes the same of both invocations.

Deadlock is checked in every run.

## Proofs

All proofs hold for any sets of units, contents and inputs and any number of faults,
from the named assumptions in the modules: the unit types are disjoint, `None` is
not one of the values, the inputs are typed and every unit in them has a body
(`InputsWhole`), no mount is both a file and a configDir (`MountsDisjoint`), the bounds are
natural numbers. `TwoRuns` makes the same
assumptions for its two instances (`AsInReconcile`). TLC evaluates every one of them in
the runs.

Some theorems have a hypothesis besides, each because TLC finds the property of at least one
of them violated by inputs or faults without it:

| hypothesis | says | without it |
|---|---|---|
| `NoFailures` | no operation fails that could succeed | a failed operation is reported, and later plans may not see what is left to do |
| `NoCrashes` | the process does not die | a death after the unit files and before the daemon-reload is not noticed by the next plan |
| `KeepsItsDirs` | no input drops the last config file of a container that has configDirs | the wipe takes the configDirs (`files_exist_before_units`) |
| `VolumesKept` | no input drops a volume whose deletion it allows | the service of the dropped volume stays active; with the volume added again it does not make it |
| `LocksAreKept` | no input drops a container that another locks | a locked container without a spec runs on while secrets and resources change, and is not restarted when its spec is back; for two invocations see "Known divergences" |
| `NoReboots`, `NoExits` | the host does not reboot, no container exits by itself | a run may fail, or a container stop, for that reason alone |
| `ResourcesStay` | all inputs have the same volumes, networks and builds, whose units refer to nothing else | the service of a dropped resource stays active and does not make it when it is added again |
| `ResourcesFixed` | no input changes them | a reboot between the new unit file of a network and its deletion starts the new service on the old network |
| `OneshotsStay` | a container that is a oneshot for one input is one for all | a running container that becomes a oneshot and is then dropped is never stopped |
| `DefTellsResources` | two units of a resource with one `def` differ only in what is restart-neutral | a service restarts for a change of its unit that `def`, which stands for the body, does not tell |
| `NetworksUsed` | every network is used by a container that is to run | podman has no network nobody uses, so the deletion of a changed one fails (see "Known divergences") |
| `BuildsHaveFiles` | every build has a context file | there is nothing to build; validation refuses it (`internal/validate/prerender.go:171`) |
| `LockedComesWithItsSecrets` | no stream drops a locked container and has a secret that container uses | a locked container runs on with the old secret |
| `SpecsArePlain` | no spec repeats a value of an option | two words for one spec may then differ in how often a value comes |

The last two are evaluated on the inputs of the run by `MCInvocation`
(`InputsMeetHypotheses`). The inputs of `config_recovery`, `resource_crashes`, `undisturbed`
and `two_runs` and their kinds of faults satisfy those of the theorems about their
properties (for `OkRunBringsAbout`, `config_recovery` has reboots and `ResourcesFixed`,
`undisturbed` changes resources and has `NoReboots`). `resource_crashes` has deaths, which
`NoCrashes` excludes and `OkRunRepairs` and `VolumesDeclared` allow.

### The plan and its permits

- `ReconcileProofs!Invariance`: `Spec => []IInv`. `IInv` is the typing of host and run
  plus what makes it inductive and useful: every operation still in `todo` that
  removes something has the permit of the units installed when the run planned
  (`PermitGiven`, against `base`), and an active container was created. `PlanPermitted`
  shows it when a plan is made, from the definitions of `Pruned`, `Recreated` and
  `Plannable`; afterwards `todo` only shrinks and `base` is fixed.
- `ProtectedStays` and `VolumeDataProtected`: from `IInv`, with the lemmas
  `InstalledLost` and `ResourceLost`, which say what takes a unit file or a resource away.

### The order of operations

`ReconcileOrderProofs` adds what the rest of a plan still owes, established by `Plan`
and kept because a run only drops operations it has tried (`OpTaken`, `RunGoesOn`).

- `Held`: nothing still to be deleted is used by a locked container without a spec, hence
  `LockedKeep`.
- `Pulled`: an image the input needs is local or still to be pulled, and pulls come before
  stops in Apply's order, hence `StopsWithImageLocal`.
- `Dropped`: a stored secret without a spec is still to be deleted, and deletes come before
  upserts, hence `RenamedNeverDoubled`, while no operation has failed: after a failed
  delete the run goes on to store the new name.
- `Quieted`: as long as an operation is left that rewrites what a container was created
  with, the container does not run, or its stop is left too, or its stop has failed; stops
  come before every rewrite, hence `NothingRewrittenUnder`.

### What a successful run leaves

`ReconcileSettleProofs`. Its invariant has four parts.

- `Owed`: every difference between the disk or the secrets and the input is an operation
  that has not been tried (`UnitsOwed`, `FilesOwed`, `DirsOwed`, `SecretsOwed`), and no
  operation left undoes what the input wants (`Licensed`). At the end nothing is left, so
  there is no difference: `OkRunRepairs`. Deaths do no harm here, since the next plan
  starts from the disk as it is.
- `Closed`: a unit an installed container refers to is installed, between runs; `Synced`:
  what systemd has loaded is what quadlet makes of the unit files, or the daemon-reload is
  left; `Lively`: a container the input wants running runs, or its start is left, and no
  stop is left that would take it down. With these the next plan has no operation for the
  services either, hence `OkRunSettles`.

`ReconcileServiceProofs!VolumesDeclared`. `StoppedFirst`: before a volume is deleted its
service is stopped, with all containers that require it, and stays so (`Idle`);
`Declared`: an active volume service has its volume, so a start that finds no volume
also runs the service that makes it.

### What containers run on

The rest of `ReconcileServiceProofs`. `OkRunConverges`, `UpToDateIsLeftRunning` and
`UndisturbedRunSucceeds` say of what each container was created with, and of what podman
holds, what the theorems above say of the disk and of systemd. A snapshot taken at a start is
followed through later runs, each of which may change the disk under it, in this way
(`CInv`, besides what `OkRunSettles` and `VolumesDeclared` rest on):

- `Served`: every service systemd knows comes from the unit file of an input.
- `CreatedAsOnHost`: an active container was created with what its loaded service says and
  the host has now, configDirs aside that are still to be reloaded.
- `LeftAlone`: a container that runs and is not to be stopped is touched by no operation left.
  Hence what an operation changes, it changes under a stopped container, and
  `CreatedAsOnHost` stays.
- `MadeByService`: a volume, a network or an image was made by its service as systemd knows
  it; `OutdatedIsDown`: while systemd knows another definition of it than the input has, the
  service is down or its stop is left, and what it made is gone or its deletion is left. So
  a container that is started after the daemon-reload finds resources of the new definition.

`OkRunBringsAbout` follows: at the end nothing is left in `todo`, and what the host has is
what the input says (`NothingLeft`). For `UpToDateKeepsRunning` two parts are added:
`StopsHaveCause`, that a container a stop still left would take down differs from the input in
something it runs on (`Outmoded`), and `FilesShown`, that services mount all files there
are between runs, without which a file nobody mounts could cause a restart. For
`UndisturbedSucceeds` the added invariant is `Possible`: every operation left can be executed
when its turn comes. What is to be stopped is known to systemd (`StopsKnown`), what is to be
reloaded runs then (`ReloadsWanted`), a network to be deleted is there and no container
uses it any more (`NetworksDeleted`, `UsedIsThere`, `RemovedIsUnused`), and a start finds its
image, secrets, files and resources (`StartIsPossible`).

### Two runs

`TwoRunsProofs!SameSpecs`. While both runs have the same input and neither has failed,
every difference of the disk and the secrets from it is an operation left in one of the two
plans (`Joint`): the one that plans last plans every difference there is (`PlanSettles`), and
no operation left in the other undoes what the input wants (`Sound`). A step of one run is a
step of `Reconcile` for it and a change of its host for the other; the lemmas about both
(`SettledStep`, `BesideStep`) are proved once, about `Reconcile`, and used for the instances.

### One configDir

- `ConfigDirProofs!Invariance`: a run writes only version `data + 1`, and after the swap
  prunes only versions other than `data` (`Phase`); what it has written is there, all of
  it before the swap (`Complete`); without faults there is nothing else (`Spotless`).
  `PublishedStays`, `UnchangedExact`, `CleanRunExact` and `SharedNamesStay` follow from it.
- `ConfigDirProofs!Refinement`: `Spec => ImplementsDirectory`. One lemma for each kind
  of step: planning is `Choose`, the swap is `Publish`, removal is `Remove`, a fault is
  `Disturb`, everything else a stutter.

### From the command line to the host

- `InvocationProofs!Invariance`: types, and `Linked`: every unit file is the rendering of
  the spec last applied for it, which had no markers of its own.
- `KeysSurvive`: the key file only grows (`KeysOnlyGrow`), for any keys.
- `LocksHold` and `VolumesHold`: from `Linked` and `LockIsReadBack` and
  `RetainIsReadBack`, that the markers a later run finds in the sorted file are those the
  spec asked for. They need that a spec without an `[X-Syslet]` section has exactly one
  value of a marker, and so depend on `PreRender`. `VolumeReadBack` adds that other options
  of a volume give another unit, and not only in what is restart-neutral.
- `ApplyIsIdempotent`: after an apply the secrets, unit files and record are those the
  next plan computes (`ApplySettles`).
- `RunningIsShown`: what runs was started with the installed unit and the stored secrets
  (`RunsWhatIsInstalled`), and after an apply that exits 0 these are those of its stream
  (`Shown`, `ShownIsSpec`). That the secrets of a container are found again in its sorted
  unit is `SecretsReadBack`.
- `RestartsHaveCause`: the same values of every option give the same file, in whatever order
  they come (`SortedUnique`), so a restart needs a value more or less, or a secret.

Both rest on the lemmas of `UnitsProofs` about `Sorted`, which is defined by `CHOOSE`: that
every list of known values has a sorted permutation, and that it is unique where values do
not repeat. They are inductions; each is proved by looking at the least counterexample
(`LeastElement`), since an induction principle takes an operator.

Assumptions of `Invocation` beyond typing: `FullNamesDistinct` (no two keys of an input
get the same podman name, which the code does not check), `NoneIsNoUnit` and
`NoneIsNotRunning` (neither a unit file nor a running container is the value that stands
for a missing one), `OptionsAreLists` (the options of a spec are finite lists of values), and
that the order of texts is a sequence (`ValueOrderIsSequence` of `Units`) that has the values
of every option given more than once (`RepeatedValuesOrdered`).

### Only model-checked

Liveness (`WantedComesUp`, `WantedByBothComesUp`), which is out of the prover's reach. The
other properties of the passing runs are theorems, some under the hypotheses above.

## Known divergences without a run

Met while modelling, and left out of the inputs of the passing runs or not modelled:

- A recreated network whose delete fails keeps its old settings in later runs, its
  unit file being written already (`plan_network.go:22`, `apply.go:197-206`;
  `docs/how-to/manage-networks.md:102` says to apply again).
- A secret whose delete fails is still stored when the run goes on to create its
  successor, since `exec` only logs the failure; `apply.go:166-167` says that both names
  are never present. `RenamedNeverDoubled` shows that this takes a failing operation.
- A reclaim that fails is not planned again (`apply.go:191-211`;
  `test/integration/apply_failure_test.go:18-20` says the next run retries it).
- A failed reload after a configDir was published, and a failed stop before files were
  rewritten, leave nothing the next plan would notice.
- A changed network that was never created fails the run that changes it
  (`apply.go:199-202`).
- The service of a removed network or volume stays active; re-adding the unit does not
  make the resource again (`plan.go:674-687`, `docs/how-to/disable-a-unit.md:30-31`).
- An error of the state query of a removed container is dropped and it keeps running
  (`plan_container.go:437-440`).
- Only files that both versions of a configDir have are swapped atomically: the links of
  added and removed ones follow one by one (`containerstore.go:236-280`;
  `docs/explanation/spec-types.md:13` promises a complete new set).
- A volume's unit file torn by a death has no markers, so the next run takes it for a
  meaningful change of a protected volume and refuses the specs that were being applied,
  until someone deletes the file (`client.go:192-198`, `plan_volume.go:24-30`). A file of
  any unit that is cut where it no longer parses makes every later plan fail
  (`plan.go:560-562, 624-628`): `Refuse` is possible while a unit is torn, and `Plan` too.
- The comment of `buildPlanUnitVolume` (`plan_volume.go:11-16`) says that the *new* spec opts
  in to the recreation of a volume. The code (line 24) asks the *installed* unit, as
  `docs/how-to/manage-volumes.md:88`, `docs/explanation/removing-specs.md:103` and
  `docs/reference/validation-rules.md:63` say: markers added together with the change do not
  count, and markers taken away with it do not protect. `VolumeDataNeedsPermit` and
  `VolumeChangesNeedPermit` state what the code does; the mutant of the first,
  `MutantNewMarkersCount`, is what the comment says.
- `docs/how-to/manage-volumes.md:130` warns that a skipped container "would keep running on a
  volume you're deleting", and `docs/reference/spec-schema/build.md:31` says that builds "are
  pruned unconditionally once the spec disappears" (likewise
  `docs/explanation/removing-specs.md:15, 80, 135` and
  `docs/how-to/build-a-container-image.md:105`). The code holds back every volume, network and
  build that a skipped container refers to (`plan.go:493-497, 574-594`;
  `removing-specs.md:42-48` and `test/integration/stale_reference_test.go` agree).
  `LockedKeepsWhatItUses` states what the code does; its mutant `MutantHoldsNoBuilds` is what
  `build.md` says.
- `docs/explanation/removing-specs.md:99` says that a podman secret without syslet's label "is
  never touched". Lines 94-97 of the page and `plan_secret.go:101-110` say that every secret
  no spec has is deleted, whoever made it; so do `StaleSecrets` and `DeletePodmanSecrets`.
- A stdin apply replaces the record before the stream is decoded
  (`api/spec.go:58-73`), so a refused stream is what a later plain `syslet` finds;
  `docs/tutorials/02-deploy-a-container.md:83` speaks of the applied spec.
- Key `c` of secret `a-b` and key `b-c` of secret `a` are one podman secret
  (`plan_secret.go:88`); nothing rejects the input, and every run plans a change.
- Where a spec repeats an option syslet overrides, only the first value is replaced
  (`renderedunit.go:201-209`).
- The values of a repeated option are written in the order of their text
  (`compareUnitOptions`), so a list whose order matters to systemd, as of `ExecStartPre=`,
  loses it.
- Two invocations: one that plans between the other's unit file and its daemon-reload
  finds nothing to write and does not reload; it starts the service systemd still has,
  with the old unit, both exit 0, and no later plan sees it. With volumes, a stop and
  delete of one after the start of the other can leave a container on a volume podman
  made up. `two_runs` therefore asks about the disk and about coming up.
- Two invocations with the same specs, after specs that locked a container the present
  ones drop: one plans while the container is unlocked and is to delete it, the other has
  specs that lock it and give it a volume, then plans the specs that drop both and keeps
  both because of the lock; now the first deletes the container. Both exit 0 and the
  volume's unit stays, although nothing holds it back (`plan.go:574-594`). `SameSpecs` has
  the hypothesis `LocksAreKept` for that.

## Not modelled

- Output (`display.go`), the external command wrappers and the CUE schema: formatting or
  I/O without state between steps.
- The validators of paths and file names (`prerender.go`: mount paths, build files, plain
  file names): they restrict the inputs, which the runs take as well formed.
- Staging validation as such: quadlet and systemd-analyze judge the text of units.
- The text formats: JSON, unit file syntax and quoting, SOPS; file modes.
- A key file line torn by a death, whose effect depends on how the sops library reads it.
- Waiting for systemd jobs without a limit (`client.go:118-144`): an operation ends.

## Order of work

1. `Reconcile`, `Promises`, `ConfigDir`, their runs and proofs.
2. `Directory` and the refinement; `TwoRuns`.
3. `Units` and `Invocation`: specs, keys, secrets, the record, and their proofs.
4. `ReconcileOrderProofs`.
5. `UnitsProofs` and the rest of `InvocationProofs`; `ReconcileSettleProofs`,
   `ReconcileServiceProofs`, `TwoRunsProofs`.
6. The rest of `ReconcileServiceProofs`: what containers run on.
7. Next: `OkRunBringsAbout` where inputs add and drop resources, with what the services of
   dropped ones leave behind as a hypothesis about single inputs; `RunningIsShown` of
   `Invocation` and `CreatedAsOnHost` of `Reconcile` from one another.
