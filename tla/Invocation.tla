----------------------------- MODULE Invocation -----------------------------
(***************************************************************************)
(* syslet from its command line to the host: keys, specs, plan, apply.     *)
(*                                                                         *)
(* Where Reconcile follows the operations of a plan one by one, this       *)
(* module follows what the specs say on their way through the program:     *)
(* the age key is derived from the host's SSH key and cached, the input is *)
(* recorded, decoded, validated and rendered for the host's systemd, the   *)
(* secrets are decrypted and compared, and the result ends up in unit      *)
(* files, in podman's secret store and in the running containers, to be    *)
(* read back by the next invocation.  Apply is one step here, which        *)
(* succeeds, and units do not refer to each other: both are in Reconcile.  *)
(***************************************************************************)
EXTENDS Units

CONSTANTS
    Key,            \* age identities, one for every SSH host key
    Streams,        \* what may come over stdin or be found at a config path
    InitialStores   \* states in which syslet may first find podman's secret store

Maybe(S) == S \cup {None}
Specs == UNION {Pieces(s.specs) : s \in Streams}
UnitSpecs == {s \in Specs : ~IsSecret(s)}
UnitRef == {Ref(s) : s \in UnitSpecs}
Container == {u \in UnitRef : u[1] = "container"}
SecretName == UNION {DOMAIN st : st \in InitialStores}
Plaintext == UNION {{s.values[k] : k \in DOMAIN s.values} : s \in Specs \ UnitSpecs}
StoredSecret == [value: Plaintext, legacy: BOOLEAN]

ASSUME StoresTyped == InitialStores \subseteq [SecretName -> Maybe(StoredSecret)]
ASSUME EverySecretHasAPlace == \A s \in Streams : SecretNames(s.specs) \subseteq SecretName
ASSUME NoneIsNoSecret == None \notin StoredSecret
ASSUME NoneIsNoUnit ==
    \A p \in UnitSpecs : Loads(p) => \A e \in BOOLEAN : RenderedUnit(p, e) # None

\* An option is loaded as a list, a map in the order of its keys.
ASSUME OptionsAreLists ==
    \A p \in UnitSpecs : Loads(p) =>
        /\ \A k \in Option : Options(p)[k] \in Seq(Pieces(Options(p)[k]))
        /\ p.type = "container" => p.mounts \in Seq(Pieces(p.mounts))

\* The values that share an option with another one have their place in the order.
ASSUME RepeatedValuesOrdered ==
    \A p \in UnitSpecs : Loads(p) =>
        \A e \in BOOLEAN : \A k \in Option :
            Len(Merged(p, e)[k]) > 1 => Pieces(Merged(p, e)[k]) \subseteq Pieces(ValueOrder)

\* The keys of two secret specs of an input do not get the same full name.
ASSUME FullNamesDistinct ==
    \A s \in Streams : \A p, q \in Pieces(s.specs) :
        IsSecret(p) /\ IsSecret(q) /\ p # q => SecretNames(<<p>>) \cap SecretNames(<<q>>) = {}

\* config.json, cut short by the death of the process that wrote it.
Torn == [form |-> "torn", specs |-> <<>>]

VARIABLES
    sshKey,     \* the host's SSH key, None if the file is missing
    backoff,    \* whether the host's systemd knows RestartSteps=
    keyFile,    \* identities in /var/lib/syslet/key.txt
    record,     \* /etc/syslet/config.json, the stream of the last stdin apply
    store,      \* podman's secret store
    installed,  \* contents of the unit files
    running,    \* what every running container was started with
    pc, diff, stdin, stream,  \* one invocation
    ok,         \* whether the latest one was an apply that exited 0
    restarted,  \* the containers it restarted
    applied,    \* the spec every installed unit was last written for (history)
    decrypted   \* the secret specs of every plan so far (history)

environment == <<sshKey, backoff>>
host == <<store, installed, running, restarted, applied>>
invocation == <<pc, diff, stdin, stream, ok>>
vars == <<sshKey, backoff, keyFile, record, store, installed, running, restarted,
          applied, pc, diff, stdin, stream, ok, decrypted>>

(***************************************************************************)
(* The plan.                                                               *)
(***************************************************************************)
Decodes(s) ==
    /\ s.form # "torn"
    /\ s.specs = <<>> => s.form = "array"
    /\ \A p \in Pieces(s.specs) :
          /\ p.apiVersion = "v1"
          /\ p.type \in {"container", "volume", "network", "build", "secret"}

Units(s) == {p \in Pieces(s.specs) : ~IsSecret(p)}
Secrets(s) == {p \in Pieces(s.specs) : IsSecret(p)}
Desired(s) == {Ref(p) : p \in Units(s)}
SpecOf(s, u) == CHOOSE p \in Units(s) : Ref(p) = u
Decryptable(p) == p.recipients \cap keyFile # {}
Value(s, n) ==
    CHOOSE v \in Plaintext : \E p \in Secrets(s) : \E k \in DOMAIN p.values :
        FullName(p.name, k) = n /\ p.values[k] = v

ChangedSecrets(s) ==
    {n \in SecretNames(s.specs) : store[n] = None \/ store[n].value # Value(s, n)}
\* A secret of an earlier version is rewritten once, to drop its label.
UpsertPodmanSecrets(s) ==
    ChangedSecrets(s) \cup {n \in SecretNames(s.specs) : store[n] # None /\ store[n].legacy}
DeletePodmanSecrets(s) == {n \in SecretName \ SecretNames(s.specs) : store[n] # None}

IsChanged(p, exponential) == installed[Ref(p)] # RenderedUnit(p, exponential)
MeaningfullyChanged(p, exponential) ==
    /\ installed[Ref(p)] # None
    /\ StripRestartNeutralOptions(installed[Ref(p)])
          # StripRestartNeutralOptions(RenderedUnit(p, exponential))
MutantIgnoresPolicy(p, exponential) ==
    /\ p.type = "volume" /\ MeaningfullyChanged(p, exponential)
    /\ ~IsUnitRemovalAllowed(installed[Ref(p)])
VolumeChangeRefused(p, exponential) ==
    /\ p.type = "volume" /\ MeaningfullyChanged(p, exponential)
    /\ ~(IsUnitRemovalAllowed(installed[Ref(p)]) /\ IsReclaimPolicyDelete(installed[Ref(p)]))

Stale(s) == {u \in UnitRef : installed[u] # None /\ u \notin Desired(s)}
Pruned(s) == {u \in Stale(s) : u[1] = "build" \/ IsUnitRemovalAllowed(installed[u])}

References(p) == {v[1] : v \in Pieces(Options(p)[ContainerSecret])}
MutantIgnoresSecrets(s, p, exponential) ==
    running[Ref(p)] # None
        /\ (installed[Ref(p)] = None \/ MeaningfullyChanged(p, exponential))
NeedsRestart(s, p, exponential) ==
    /\ running[Ref(p)] # None
    /\ \/ installed[Ref(p)] = None
       \/ MeaningfullyChanged(p, exponential)
       \/ References(p) \cap ChangedSecrets(s) # {}

\* With no key at all, main passes no decryptor and any secret refuses the plan.
Plannable(s, exponential) ==
    /\ \A p \in Pieces(s.specs) : Loads(p)
    /\ PreRender(s.specs)
    /\ \A p \in Units(s) : ~VolumeChangeRefused(p, exponential)
    /\ \A p \in Secrets(s) : Decryptable(p)

(***************************************************************************)
(* An invocation.                                                          *)
(***************************************************************************)
\* syslet, syslet --diff, and either with --stdin or a path: the recorded stream
\* is found at the default path, and anything the operator has at another.
Invoke(d, i, s) ==
    /\ pc = "idle"
    /\ i => s.form # "dir"
    /\ pc' = "keys" /\ diff' = d /\ stdin' = i /\ stream' = s
    /\ ok' = FALSE /\ restarted' = {}
    /\ UNCHANGED <<environment, keyFile, record, store, installed, running, applied, decrypted>>

\* It ends without an apply: an error, a refused plan, a diff, a death.
Ends ==
    /\ pc' = "idle" /\ diff' = FALSE /\ stdin' = FALSE /\ stream' = Torn
    /\ UNCHANGED <<environment, ok, host>>

\* The SSH key's identity is cached if it is not yet, for a diff as for an apply.
\* Without a key at the default path the cached ones have to do.
MutantKeepsOneKey(k) == keyFile' = {k}
AppendToKeyFile(k) == keyFile' = keyFile \cup {k}

MutantAppendsMissingKey ==
    /\ pc = "keys" /\ pc' = "load" /\ AppendToKeyFile(sshKey)
    /\ UNCHANGED <<environment, record, host, diff, stdin, stream, ok, decrypted>>
newDecryptor ==
    /\ pc = "keys" /\ pc' = "load"
    /\ \/ sshKey # None /\ AppendToKeyFile(sshKey)
       \/ sshKey = None /\ UNCHANGED keyFile
    /\ UNCHANGED <<environment, record, host, diff, stdin, stream, ok, decrypted>>

\* The key cannot be read, derived or appended, or it is missing and syslet.json
\* names its path (otherwise a missing key is no error).
NoDecryptor == pc = "keys" /\ Ends /\ UNCHANGED <<keyFile, record, decrypted>>

\* A stdin apply leaves its stream on disk before anything looks into it.
LoadSpecs ==
    /\ pc = "load"
    /\ record' = IF stdin /\ ~diff THEN stream ELSE record
    /\ \/ /\ Decodes(stream) /\ pc' = "plan"
          /\ UNCHANGED <<environment, host, diff, stdin, stream, ok>>
       \/ ~Decodes(stream) /\ Ends
    /\ UNCHANGED <<keyFile, decrypted>>

\* The systemd version may turn out unreadable, which counts as an old one.
Rendering == {backoff, FALSE}

\* The specs are refused, or the generator and systemd-analyze refuse the units
\* staged for them.
Refuse ==
    /\ pc = "plan"
    /\ \E e \in Rendering :
          \/ ~Plannable(stream, e)
          \/ \E p \in Units(stream) : IsChanged(p, e)
    /\ Ends /\ UNCHANGED <<keyFile, record, decrypted>>

DisplayPlan ==
    /\ pc = "plan" /\ diff /\ \E e \in Rendering : Plannable(stream, e)
    /\ decrypted' = decrypted \cup Secrets(stream)
    /\ Ends /\ UNCHANGED <<keyFile, record>>

\* An upsert replaces the secret and its labels.
MutantKeepsLabel(n) ==
    [value |-> Value(stream, n), legacy |-> store[n] # None /\ store[n].legacy]
Replaced(n) == [value |-> Value(stream, n), legacy |-> FALSE]

\* What a container is started with; restart-neutral options reach it anyway.
Started(p, content) ==
    [content |-> StripRestartNeutralOptions(content),
     secrets |-> [n \in References(p) |-> store'[n].value]]

ASSUME NoneIsNotRunning ==
    \A p \in UnitSpecs : Loads(p) =>
        \A e \in BOOLEAN : \A values \in [References(p) -> Plaintext] :
            None # [content |-> StripRestartNeutralOptions(RenderedUnit(p, e)), secrets |-> values]

\* Restart, stop, start, or nothing; a pruned oneshot is not stopped.
RunningAfter(c, e) ==
    IF c \in Desired(stream)
    THEN LET p == SpecOf(stream, c) IN
         CASE ParseDesiredState(p) = "running"
                /\ (running[c] = None \/ NeedsRestart(stream, p, e)) -> Started(p, installed'[c])
           [] ParseDesiredState(p) = "stopped" -> None
           [] OTHER -> running[c]
    ELSE IF c \in Pruned(stream) /\ ~IsOneshotUnit(installed[c]) THEN None ELSE running[c]

Apply ==
    /\ pc = "plan" /\ ~diff
    /\ \E e \in Rendering :
          /\ Plannable(stream, e)
          /\ store' = [n \in SecretName |->
                         CASE n \in UpsertPodmanSecrets(stream) -> Replaced(n)
                           [] n \in DeletePodmanSecrets(stream) -> None
                           [] OTHER -> store[n]]
          /\ installed' = [u \in UnitRef |->
                             CASE u \in Desired(stream) -> RenderedUnit(SpecOf(stream, u), e)
                               [] u \in Pruned(stream) -> None
                               [] OTHER -> installed[u]]
          /\ applied' = [u \in UnitRef |->
                           CASE u \in Desired(stream) -> SpecOf(stream, u)
                             [] u \in Pruned(stream) -> None
                             [] OTHER -> applied[u]]
          /\ running' = [c \in Container |-> RunningAfter(c, e)]
          /\ restarted' = {Ref(p) : p \in {q \in Units(stream) :
                              /\ q.type = "container" /\ ParseDesiredState(q) = "running"
                              /\ NeedsRestart(stream, q, e)}}
    /\ decrypted' = decrypted \cup Secrets(stream)
    /\ pc' = "idle" /\ ok' = TRUE
    /\ UNCHANGED <<environment, keyFile, record, diff, stdin, stream>>

-----------------------------------------------------------------------------
\* The process dies before Apply; while it writes the record, that is torn.
Crash ==
    /\ pc # "idle"
    /\ \/ UNCHANGED record
       \/ pc = "load" /\ stdin /\ ~diff /\ record' = Torn
    /\ Ends /\ UNCHANGED <<keyFile, decrypted>>

\* Both are read once in an invocation: what changes later might as well change
\* after it.
RotateHostKey(k) ==
    /\ pc = "idle" /\ sshKey' = k
    /\ UNCHANGED <<backoff, keyFile, record, host, invocation, decrypted>>
UpgradeSystemd ==
    /\ pc = "idle" /\ ~backoff /\ backoff' = TRUE
    /\ UNCHANGED <<sshKey, keyFile, record, host, invocation, decrypted>>

Init ==
    /\ sshKey \in Maybe(Key) /\ backoff \in BOOLEAN
    /\ keyFile = {} /\ record = None /\ store \in InitialStores
    /\ installed = [u \in UnitRef |-> None] /\ applied = installed
    /\ running = [c \in Container |-> None] /\ restarted = {}
    /\ pc = "idle" /\ diff = FALSE /\ stdin = FALSE /\ stream = Torn
    /\ ok = FALSE /\ decrypted = {}

Next ==
    \/ \E d, i \in BOOLEAN : \E s \in Streams \cup ({record} \ {None}) : Invoke(d, i, s)
    \/ newDecryptor \/ NoDecryptor \/ LoadSpecs
    \/ Refuse \/ DisplayPlan \/ Apply
    \/ Crash
    \/ \E k \in Maybe(Key) : RotateHostKey(k)
    \/ UpgradeSystemd

Spec == Init /\ [][Next]_vars

-----------------------------------------------------------------------------
TypeOK ==
    /\ sshKey \in Maybe(Key) /\ backoff \in BOOLEAN
    /\ keyFile \subseteq Key
    /\ record \in Streams \cup {Torn, None}
    /\ store \in [SecretName -> Maybe(StoredSecret)]
    /\ applied \in [UnitRef -> Maybe(UnitSpecs)]
    /\ restarted \subseteq Container
    /\ pc \in {"idle", "keys", "load", "plan"}
    /\ diff \in BOOLEAN /\ stdin \in BOOLEAN /\ ok \in BOOLEAN
    /\ stream \in Streams \cup {Torn}
    /\ decrypted \subseteq Specs

\* Every unit file is the rendering of the spec it was last written for, which
\* did not bring markers of its own.
Linked ==
    \A u \in UnitRef : installed[u] # None =>
        /\ Ref(applied[u]) = u /\ NoXSysletSection(applied[u])
        /\ \E e \in BOOLEAN : installed[u] = RenderedUnit(applied[u], e)
IInv == TypeOK /\ Linked

\* A secret that some invocation decrypted, a diff included, can be decrypted from
\* then on, however the host's SSH key is rotated or lost (docs/reference/
\* host-config.md:20, docs/how-to/rotate-the-ssh-host-key.md:4).
SecretsSurviveRotation == \A p \in decrypted : Decryptable(p)

\* What an operator would call a change of a container, in terms of its spec: an
\* option other than the restart policy has other values, whatever their order or
\* the form they are written in; a mount, a state or a secret is another, or the
\* secret was dropped in between.
SpecDiffers(p, q) ==
    \/ \E k \in Option \ RestartNeutral : Pieces(Options(p)[k]) # Pieces(Options(q)[k])
    \/ ParseDesiredState(p) # ParseDesiredState(q)
    \/ Pieces(p.mounts) # Pieces(q.mounts)
SecretsDiffer(c) ==
    \E n \in References(SpecOf(stream, c)) :
        store[n] = None \/ (n \in DOMAIN running[c].secrets /\ running[c].secrets[n] # Value(stream, n))

\* A running container is restarted only for such a change.  Re-encrypting its
\* secrets, dropping their old labels, upgrading systemd, changing markers or the
\* description, and a spec that says the same in other words do not restart it.
RestartsOnlyForCause ==
    [][\A c \in restarted' \ restarted :
          \/ applied[c] = None
          \/ SpecDiffers(applied[c], SpecOf(stream, c))
          \/ SecretsDiffer(c)]_vars

\* What an apply that exits 0 leaves running has been started with exactly what
\* the spec says: its options, its mounts and the present values of its secrets.
RunningShowsSpec ==
    ok =>
        \A p \in Units(stream) :
            p.type = "container" /\ ParseDesiredState(p) = "running" =>
                /\ running[Ref(p)] # None
                /\ \A k \in Option \ (RestartNeutral \cup Overridden(p)) :
                      Pieces(running[Ref(p)].content[k])
                        = Pieces(Options(p)[k]) \cup Pieces(Extra(p, k))
                /\ \A n \in References(p) : running[Ref(p)].secrets[n] = Value(stream, n)

\* Applying once more plans nothing, from the record as well if the input came over
\* stdin: what is read back from the unit files, the secret store and the record is
\* what was written, old labels gone.
SecondApplyPlansNothing ==
    ok =>
        LET again == IF stdin THEN record ELSE stream IN
        /\ Decodes(again)
        /\ UpsertPodmanSecrets(again) \cup DeletePodmanSecrets(again) = {}
        /\ \E e \in BOOLEAN : \A p \in Units(again) : ~IsChanged(p, e)
        /\ Pruned(again) = {}

\* A unit goes only if the last spec applied for it did not say removalAllowed
\* false, whatever the spec's own options were (docs/how-to/manage-containers.md).
LockedSpecsStay ==
    [][\A u \in UnitRef :
          installed[u] # None /\ installed'[u] = None /\ u[1] # "build"
              => applied[u].removalAllowed # "false"]_vars

\* The options of a volume, other than those syslet sets, change only if the last
\* spec applied for it neither locked it nor said Retain, whatever the new spec says
\* (plan_volume.go:24; its comment, lines 11-16, lets the new spec decide).
VolumeChangesNeedPermit ==
    [][\A u \in UnitRef :
          /\ u[1] = "volume" /\ installed[u] # None /\ installed'[u] # None
          /\ \E k \in Option \ (RestartNeutral \cup Overridden(applied'[u])) :
                Pieces(Options(applied[u])[k]) # Pieces(Options(applied'[u])[k])
          => applied[u].removalAllowed # "false" /\ applied[u].reclaimPolicy # "Retain"]_vars

-----------------------------------------------------------------------------
(***************************************************************************)
(* What theorems about RunningShowsSpec and RestartsOnlyForCause suppose   *)
(* of the inputs.                                                          *)
(*                                                                         *)
(* A locked container whose spec is gone stays as it is, and syslet does   *)
(* not restart it for the secrets it uses (plan_secret.go:101).  When its  *)
(* spec is back, its unit and the secrets in podman's store are what the   *)
(* input says, and the container keeps running with the old values.  The   *)
(* first hypothesis leaves out the inputs for which that happens.          *)
(***************************************************************************)
LockedComesWithItsSecrets ==
    \A s \in Streams : \A p \in UnitSpecs :
        /\ p.type = "container" /\ p.removalAllowed = "false"
        /\ References(p) \cap SecretNames(s.specs) # {}
        => Ref(p) \in Desired(s)

\* A spec that repeats a value, or gives a second one of an option that syslet sets, has
\* them all in its unit: rewording it may well restart the container.
SpecsArePlain ==
    \A p \in UnitSpecs :
        p.type = "container" /\ Loads(p) /\ NoXSysletSection(p) => Plain(p)
=============================================================================
