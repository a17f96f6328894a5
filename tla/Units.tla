------------------------------- MODULE Units -------------------------------
(***************************************************************************)
(* From the JSON of a spec to the unit file syslet writes for it, and back *)
(* from the unit file to what a later run reads in it.  All of it is a     *)
(* function of its arguments.  A unit file is serialised in the order of   *)
(* section, key and value (compareUnitOptions), so that it is determined   *)
(* by the sorted values of every option: contents are functions from       *)
(* options to sequences of values, <<>> where the file lacks the option.   *)
(* A value is the tuple of the pieces its text is put together from.       *)
(***************************************************************************)
EXTENDS Sequences, FiniteSets, Functions

CONSTANTS
    OtherOption,  \* options of the specs that no rule of syslet is about
    ValueOrder,   \* the values options are repeated with, in the order of their text
    NotString,    \* a JSON value that is no string
    None

Pieces(s) == {s[i] : i \in DOMAIN s}

ASSUME OtherOptionsArePairs == OtherOption \subseteq STRING \X STRING
ASSUME ValueOrderIsSequence == ValueOrder \in Seq(Pieces(ValueOrder))
ASSUME ValuesListedOnce ==
    \A i, j \in DOMAIN ValueOrder : ValueOrder[i] = ValueOrder[j] => i = j

Description == <<"Unit", "Description">>
StartLimitIntervalSec == <<"Unit", "StartLimitIntervalSec">>
StartLimitBurst == <<"Unit", "StartLimitBurst">>
Restart == <<"Service", "Restart">>
RestartSec == <<"Service", "RestartSec">>
RestartSteps == <<"Service", "RestartSteps">>
RestartMaxDelaySec == <<"Service", "RestartMaxDelaySec">>
ServiceType == <<"Service", "Type">>
WantedBy == <<"Install", "WantedBy">>
ContainerName == <<"Container", "ContainerName">>
ContainerVolume == <<"Container", "Volume">>
ContainerSecret == <<"Container", "Secret">>
ContainerNetwork == <<"Container", "Network">>
VolumeName == <<"Volume", "VolumeName">>
NetworkName == <<"Network", "NetworkName">>
BuildFile == <<"Build", "File">>
RemovalAllowed == <<"X-Syslet", "RemovalAllowed">>
ReclaimPolicy == <<"X-Syslet", "ReclaimPolicy">>

Option ==
    {Description, StartLimitIntervalSec, StartLimitBurst, Restart, RestartSec, RestartSteps,
     RestartMaxDelaySec, ServiceType, WantedBy, ContainerName, ContainerVolume,
     ContainerSecret, ContainerNetwork, VolumeName, NetworkName, BuildFile, RemovalAllowed,
     ReclaimPolicy} \cup OtherOption

(***************************************************************************)
(* Loading.  A spec's unit is None or a function from some options to JSON *)
(* values: a string, a list, or a map, whose entries are given in the      *)
(* order of their keys.  An optional field that is left out is "".         *)
(***************************************************************************)
\* What a map may be given for, and how an empty value in it is taken.
MapRule(k) ==
    CASE k[2] = "Environment" -> "empty"
      [] k = ContainerSecret -> "optional"
      [] k = ContainerNetwork -> "ignored"
      [] k \in {ContainerVolume, <<"Container", "Mask">>, <<"Container", "LogOpt">>} -> "required"
      [] OTHER -> "rejected"

RawValid(k, raw) ==
    CASE raw.form = "string" -> TRUE
      [] raw.form = "list" -> NotString \notin Pieces(raw.values)
      [] raw.form = "map" ->
            /\ MapRule(k) # "rejected"
            /\ MapRule(k) # "ignored" => \A e \in Pieces(raw.entries) : e[2] # NotString
            /\ MapRule(k) = "required" => \A e \in Pieces(raw.entries) : e[2] # ""
      [] OTHER -> FALSE

MapEntry(k, e) ==
    IF MapRule(k) = "ignored" \/ (MapRule(k) = "optional" /\ e[2] = "") THEN <<e[1]>> ELSE e

UnitValueFromRaw(k, raw) ==
    CASE raw.form = "string" -> <<raw.value>>
      [] raw.form = "list" -> raw.values
      [] raw.form = "map" -> [i \in DOMAIN raw.entries |-> MapEntry(k, raw.entries[i])]

\* A spec the loader accepts; secrets are parsed for their key names only.
Loads(spec) ==
    \/ spec.type = "secret" /\ spec.yaml
    \/ /\ spec.type # "secret" /\ spec.unit # None
       /\ \A k \in DOMAIN spec.unit : RawValid(k, spec.unit[k])
       /\ spec.type = "container" => spec.desiredState \in {"", "running", "stopped", "oneshot"}
       /\ spec.type # "container" => spec.reclaimPolicy \in {"", "Delete", "Retain"}

ParseRemovalAllowed(spec) == spec.type # "build" => spec.removalAllowed # "false"
ParseReclaimPolicy(spec) == IF spec.reclaimPolicy = "" THEN "Delete" ELSE spec.reclaimPolicy
ParseDesiredState(spec) == IF spec.desiredState = "" THEN "running" ELSE spec.desiredState

Options(spec) ==
    [k \in Option |->
        IF k \in DOMAIN spec.unit THEN UnitValueFromRaw(k, spec.unit[k]) ELSE <<>>]

(***************************************************************************)
(* Validation of the specs of an input, before rendering.  The paths and   *)
(* file names it also checks are taken to be well formed.                  *)
(***************************************************************************)
IsSecret(spec) == spec.type = "secret"
Ref(spec) == <<spec.type, spec.name>>
FullName(name, key) == name \o "-" \o key
SecretNames(specs) ==
    UNION {{FullName(s.name, k) : k \in DOMAIN s.values} : s \in {t \in Pieces(specs) : IsSecret(t)}}

NoDuplicateNames(specs) ==
    \A i, j \in DOMAIN specs :
        ~IsSecret(specs[i]) /\ ~IsSecret(specs[j]) /\ Ref(specs[i]) = Ref(specs[j]) => i = j
SecretReferences(specs) ==
    \A s \in Pieces(specs) :
        s.type = "container" =>
            \A v \in Pieces(Options(s)[ContainerSecret]) : v[1] \in SecretNames(specs)
SpecNameNotEmpty(spec) == spec.name # ""
NoXSysletSection(spec) == \A k \in DOMAIN spec.unit : k[1] # "X-Syslet"
\* Values that are compared without regard to case.
True == {<<"true">>, <<"True">>, <<"TRUE">>}
Delete == {<<"Delete">>, <<"delete">>, <<"DELETE">>}
Oneshot == {<<"oneshot">>, <<"Oneshot">>, <<"ONESHOT">>}
ContainerOneshotRequiresOneshotState(spec) ==
    spec.type = "container" /\ ParseDesiredState(spec) = "running"
        => Pieces(Options(spec)[ServiceType]) \cap Oneshot = {}

MutantAllowsXSyslet(specs) ==
    /\ NoDuplicateNames(specs) /\ SecretReferences(specs)
    /\ \A s \in Pieces(specs) : ~IsSecret(s) => SpecNameNotEmpty(s)
PreRender(specs) ==
    /\ NoDuplicateNames(specs) /\ SecretReferences(specs)
    /\ \A s \in Pieces(specs) :
          ~IsSecret(s) => /\ SpecNameNotEmpty(s)
                          /\ NoXSysletSection(s)
                          /\ ContainerOneshotRequiresOneshotState(s)

(***************************************************************************)
(* Rendering.                                                              *)
(***************************************************************************)
Rank(v) == CHOOSE i \in DOMAIN ValueOrder : ValueOrder[i] = v
compareUnitOptions(v, w) == Rank(v) <= Rank(w)
MutantUnsorted(values) == values
Sorted(values) ==
    CHOOSE s \in {[i \in DOMAIN values |-> values[f[i]]] : f \in Injection(DOMAIN values, DOMAIN values)} :
        \A i, j \in DOMAIN s : i < j => compareUnitOptions(s[i], s[j])

\* What syslet sets in a unit, NoValue where it sets nothing.
NoValue == <<>>
\* Default: only where the unit has none.
ensureUnitOption(values, v) == IF v = NoValue \/ values # <<>> THEN values ELSE <<v>>
\* Override: the first value is replaced, the others stay.
forceUnitOption(values, v) ==
    IF v = NoValue THEN values ELSE IF values = <<>> THEN <<v>> ELSE [values EXCEPT ![1] = v]

\* Of a container, exponential says whether the host's systemd knows RestartSteps=.
Backoff(exponential, k) ==
    CASE k = StartLimitIntervalSec -> <<"0">>
      [] k = RestartSec -> IF exponential THEN <<"1s">> ELSE <<"10s">>
      [] k = RestartSteps /\ exponential -> <<"10">>
      [] k = RestartMaxDelaySec /\ exponential -> <<"5min">>
      [] OTHER -> NoValue
Default(spec, exponential, k) ==
    CASE spec.type # "container" -> NoValue
      [] spec.type = "container" /\ k = Description -> <<spec.name, " container">>
      [] spec.type = "container" /\ k # Description /\ ParseDesiredState(spec) = "running" ->
            Backoff(exponential, k)
      [] OTHER -> NoValue

NameOption(type) ==
    CASE type = "container" -> ContainerName
      [] type = "volume" -> VolumeName
      [] type = "network" -> NetworkName
      [] OTHER -> BuildFile
StateOverride(spec, k) ==
    CASE k = Restart /\ ParseDesiredState(spec) = "running" -> <<"always">>
      [] k = WantedBy /\ ParseDesiredState(spec) = "running" -> <<"multi-user.target default.target">>
      [] k = ServiceType /\ ParseDesiredState(spec) = "oneshot" -> <<"oneshot">>
      [] OTHER -> NoValue
FormatBool(b) == IF b THEN <<"true">> ELSE <<"false">>
Override(spec, k) ==
    CASE k = NameOption(spec.type) -> IF spec.type = "build" THEN <<spec.name, "Containerfile">> ELSE <<spec.name>>
      [] k = RemovalAllowed /\ spec.type # "build" -> FormatBool(ParseRemovalAllowed(spec))
      [] k = ReclaimPolicy /\ spec.type # "container" -> <<ParseReclaimPolicy(spec)>>
      [] OTHER -> IF spec.type = "container" THEN StateOverride(spec, k) ELSE NoValue
Overridden(spec) == {k \in Option : Override(spec, k) # NoValue}

\* A read-only mount for every config file and configDir, from a host path made of
\* the container's name and the path in the container.
Extra(spec, k) ==
    IF spec.type = "container" /\ k = ContainerVolume
    THEN [i \in DOMAIN spec.mounts |-> <<spec.name, spec.mounts[i], "ro,Z">>] ELSE <<>>

Merged(spec, exponential) ==
    [k \in Option |->
        forceUnitOption(ensureUnitOption(Options(spec)[k] \o Extra(spec, k),
                                         Default(spec, exponential, k)),
                        Override(spec, k))]
RenderedUnit(spec, exponential) == [k \in Option |-> Sorted(Merged(spec, exponential)[k])]

(***************************************************************************)
(* What a later run reads in an installed unit.                            *)
(***************************************************************************)
RestartNeutral ==
    {Description, StartLimitIntervalSec, StartLimitBurst,
     RestartSec, RestartSteps, RestartMaxDelaySec}
StripRestartNeutralOptions(content) ==
    [k \in Option |-> IF k[1] = "X-Syslet" \/ k \in RestartNeutral THEN <<>> ELSE content[k]]

FindOptValue(content, k) == IF content[k] = <<>> THEN <<>> ELSE Head(content[k])
IsUnitRemovalAllowed(content) == FindOptValue(content, RemovalAllowed) \in True
IsReclaimPolicyDelete(content) == FindOptValue(content, ReclaimPolicy) \in Delete
IsOneshotUnit(content) == Pieces(content[ServiceType]) \cap Oneshot # {}

-----------------------------------------------------------------------------
\* The values of an option, the mounts of the container included, before syslet adds
\* its own.  A spec is plain if none is given twice, and the options that syslet sets
\* have one at most: then its unit depends only on which values there are.
Given(spec, k) == Options(spec)[k] \o Extra(spec, k)
Unrepeated(values) == \A i, j \in DOMAIN values : values[i] = values[j] => i = j
Plain(spec) ==
    \A k \in Option \ RestartNeutral :
        IF Override(spec, k) = NoValue THEN Unrepeated(Given(spec, k)) ELSE Len(Given(spec, k)) <= 1
=============================================================================
