----------------------------- MODULE ConfigDir -----------------------------
(***************************************************************************)
(* One configDir of a container on disk, through successive runs of syslet *)
(* (internal/filestore/containerstore.go and the configDir phase of Apply).*)
(*                                                                         *)
(* The directory is bind-mounted into a container that may be reading it   *)
(* at any time.  It holds numbered version directories, a symlink "..data" *)
(* to the current one, and one symlink <name> -> ..data/<name> per file.   *)
(* A run writes version n+1 file by file, swaps "..data" by a rename,      *)
(* adjusts the links and prunes the other versions.  Every system call may *)
(* fail and the process may die between any two, or in the middle of the   *)
(* write of a file.                                                        *)
(***************************************************************************)
EXTENDS Integers

CONSTANTS
    Name,        \* file names
    Value,       \* contents, the mode included
    None,
    Torn,        \* the content of a file whose write was cut short
    Wants,       \* what the input may ask of the directory: contents, or None
    MaxVersion,  \* bound on the version number
    FaultKinds,  \* which of "fail", "crash" may happen
    MaxFaults    \* how many of them may happen

Maybe(S) == S \cup {None}
Contents == [Name -> Maybe(Value)]
OnDisk == [Name -> Maybe(Value) \cup {Torn}]
Version == 1..MaxVersion
Empty == [n \in Name |-> None]

ASSUME WantsTyped == Wants \subseteq Maybe(Contents)
ASSUME BoundsAreNatural == MaxVersion \in Nat /\ MaxFaults \in Nat
ASSUME NoneAndTornAreFresh ==
    None \notin Value /\ Torn \notin Maybe(Value) /\ None \notin OnDisk

VARIABLES
    versions,  \* the version directories that exist
    data,      \* the version "..data" points to, 0 if there is no link
    tmp,       \* the version "..data-tmp" points to, 0 if there is no link
    links,     \* the names with a stable symlink
    pc,        \* "idle", "write", "link", "swap", "adjust", "prune" or "remove"
    want,      \* what the current or latest run wants
    target,    \* the version it writes
    pending,   \* the files it has still to write
    failed,    \* the files it could not write
    outcome,   \* of the latest run: "none", "unchanged", "ok" or "error"
    faults     \* faults that have happened

disk == <<versions, data, tmp, links>>
run == <<want, target, pending, failed>>
vars == <<versions, data, tmp, links, pc, want, target, pending, failed, outcome, faults>>

\* What "..data" leads to, and what a reader finds under the stable names.
Published == IF data \in Version /\ versions[data] # None THEN versions[data] ELSE Empty
View == [n \in Name |-> IF n \in links THEN Published[n] ELSE None]

Names(files) == {n \in Name : files[n] # None}

Fault(kind) == kind \in FaultKinds /\ faults < MaxFaults /\ faults' = faults + 1

End(how) == pc' = "idle" /\ outcome' = how /\ UNCHANGED run
Fail == Fault("fail") /\ End("error") /\ UNCHANGED disk
Goto(next) == pc' = next /\ UNCHANGED <<run, outcome, faults>>

(***************************************************************************)
(* Planning: compare the wanted files with those of the current version.   *)
(***************************************************************************)
MutantIgnoresRemovals(w) == data = 0 \/ \E n \in Names(w) : Published[n] # w[n]
Changed(w) ==
    \/ data = 0
    \/ \E n \in Names(w) : Published[n] # w[n]
    \/ ~(Names(Published) \subseteq Names(w))

\* A version is named by its number, read back from the link.
MutantSameVersion == IF data = 0 THEN 1 ELSE data
NextVersion == data + 1

Exists == data # 0 \/ tmp # 0 \/ links # {} \/ \E v \in Version : versions[v] # None

Plan(w) ==
    /\ pc = "idle"
    /\ want' = w /\ failed' = {}
    /\ \/ /\ w = None /\ Exists
          /\ pc' = "remove" /\ outcome' = "none" /\ pending' = {} /\ UNCHANGED target
       \/ /\ w # None /\ Changed(w) /\ NextVersion \in Version
          /\ pc' = "write" /\ outcome' = "none"
          /\ target' = NextVersion /\ pending' = Names(w)
       \/ /\ IF w = None THEN ~Exists ELSE ~Changed(w)
          /\ outcome' = "unchanged" /\ pending' = {} /\ UNCHANGED <<pc, target>>
    /\ UNCHANGED <<disk, faults>>

(***************************************************************************)
(* WriteFsContainerConfigDir.                                              *)
(***************************************************************************)
\* The directory of the version is made with its first file.
OldFiles == IF versions[target] = None THEN Empty ELSE versions[target]
DirMade == versions' = [versions EXCEPT ![target] = OldFiles]
Written(n, v) == versions' = [versions EXCEPT ![target] = [OldFiles EXCEPT ![n] = v]]

\* A failed write, which may leave part of the file, does not keep the others
\* from being tried.
WriteVersionedDirFile(n) ==
    /\ pc = "write" /\ n \in pending
    /\ pending' = pending \ {n}
    /\ \/ Written(n, want[n]) /\ UNCHANGED <<failed, faults>>
       \/ /\ Fault("fail") /\ failed' = failed \cup {n}
          /\ UNCHANGED versions \/ DirMade \/ Written(n, Torn)
    /\ UNCHANGED <<data, tmp, links, pc, want, target, outcome>>

MutantLinksAnyway == pc = "write" /\ pending = {} /\ Goto("link") /\ UNCHANGED disk
AllWritten ==
    /\ pc = "write" /\ pending = {}
    /\ \/ failed # {} /\ End("error") /\ UNCHANGED faults
       \/ failed = {} /\ Goto("link")
    /\ UNCHANGED disk

\* UpdateDirSymlink: the version directory, made if it has no files, and the
\* temporary link, replacing one left by a run that was interrupted.
PartlyLinked == (UNCHANGED versions \/ DirMade) /\ tmp' \in {0, tmp} /\ UNCHANGED <<data, links>>
MakeTmpLink ==
    /\ pc = "link"
    /\ \/ DirMade /\ tmp' = target /\ Goto("swap") /\ UNCHANGED <<data, links>>
       \/ Fault("fail") /\ PartlyLinked /\ End("error")

SwapDataLink ==
    /\ pc = "swap"
    /\ \/ data' = tmp /\ tmp' = 0 /\ Goto("adjust") /\ UNCHANGED <<versions, links>>
       \/ Fail

\* First the links of files that are gone, then those of the new ones.
MutantRelinksAll == links
StaleLinks == links \ Names(versions[target])
MutantNoNewLinks == {}
NewLinks == Names(versions[target]) \ links

RemoveStaleLink(n) ==
    /\ pc = "adjust" /\ n \in StaleLinks
    /\ \/ links' = links \ {n} /\ Goto("adjust") /\ UNCHANGED <<versions, data, tmp>>
       \/ Fail

MakeNewLink(n) ==
    /\ pc = "adjust" /\ StaleLinks = {} /\ n \in NewLinks
    /\ \/ links' = links \cup {n} /\ Goto("adjust") /\ UNCHANGED <<versions, data, tmp>>
       \/ Fail

LinksAdjusted ==
    /\ pc = "adjust" /\ StaleLinks \cup NewLinks = {}
    /\ Goto("prune") /\ UNCHANGED disk

\* os.RemoveAll of a version directory may stop anywhere.
Remnant(v, kept) ==
    IF versions[v] = None THEN None ELSE [n \in Name |-> IF n \in kept THEN versions[v][n] ELSE None]
PartlyPruned(v) ==
    \E kept \in SUBSET Name : versions' = [versions EXCEPT ![v] = Remnant(v, kept)]

\* A version that cannot be pruned is only logged, and ends the pruning.
PruneOldVersion(v) ==
    /\ pc = "prune" /\ v # target /\ versions[v] # None
    /\ UNCHANGED <<data, tmp, links>>
    /\ \/ versions' = [versions EXCEPT ![v] = None] /\ Goto("prune")
       \/ PartlyPruned(v) /\ Fault("fail") /\ End("ok")

Pruned ==
    /\ pc = "prune" /\ \A v \in Version \ {target} : versions[v] = None
    /\ End("ok") /\ UNCHANGED <<disk, faults>>

(***************************************************************************)
(* DeleteFsContainerConfigDir: os.RemoveAll, one entry after the other.    *)
(***************************************************************************)
PartlyRemoved ==
    /\ \E left \in SUBSET Version, half \in Version, kept \in SUBSET Name :
          versions' = [v \in Version |-> IF v \notin left THEN None
                                         ELSE IF v = half THEN Remnant(v, kept) ELSE versions[v]]
    /\ links' \in SUBSET links
    /\ data' \in {0, data} /\ tmp' \in {0, tmp}

RemoveDir ==
    /\ pc = "remove"
    /\ \/ /\ versions' = [v \in Version |-> None] /\ links' = {} /\ data' = 0 /\ tmp' = 0
          /\ End("ok") /\ UNCHANGED faults
       \/ Fault("fail") /\ PartlyRemoved /\ End("ok")

Crash ==
    /\ pc # "idle" /\ Fault("crash") /\ End("none")
    /\ \/ UNCHANGED disk
       \/ \E n \in pending :
             pc = "write" /\ Written(n, Torn) /\ UNCHANGED <<data, tmp, links>>
       \/ pc = "write" /\ DirMade /\ UNCHANGED <<data, tmp, links>>
       \/ pc = "link" /\ PartlyLinked
       \/ \E v \in Version \ {target} :
             pc = "prune" /\ PartlyPruned(v) /\ UNCHANGED <<data, tmp, links>>
       \/ pc = "remove" /\ PartlyRemoved

Init ==
    /\ versions = [v \in Version |-> None] /\ data = 0 /\ tmp = 0 /\ links = {}
    /\ pc = "idle" /\ want = None /\ target = 0 /\ pending = {} /\ failed = {}
    /\ outcome = "none" /\ faults = 0

Next ==
    \/ \E w \in Wants : Plan(w)
    \/ \E n \in Name : WriteVersionedDirFile(n) \/ RemoveStaleLink(n) \/ MakeNewLink(n)
    \/ AllWritten \/ MakeTmpLink \/ SwapDataLink \/ LinksAdjusted
    \/ \E v \in Version : PruneOldVersion(v)
    \/ Pruned \/ RemoveDir \/ Crash

Spec == Init /\ [][Next]_vars

-----------------------------------------------------------------------------
TypeOK ==
    /\ versions \in [Version -> Maybe(OnDisk)]
    /\ data \in 0..MaxVersion /\ tmp \in 0..MaxVersion /\ links \subseteq Name
    /\ pc \in {"idle", "write", "link", "swap", "adjust", "prune", "remove"}
    /\ want \in Maybe(Contents) /\ target \in 0..MaxVersion
    /\ pending \subseteq Name /\ failed \subseteq Name
    /\ outcome \in {"none", "unchanged", "ok", "error"}
    /\ faults \in 0..MaxFaults

Wanted == IF want = None THEN Empty ELSE want

\* Which version a run may write, and which one it has published.  No run ever
\* leaves "..data" at a version it goes on writing or prunes.
Phase ==
    /\ pc # "idle" /\ pc # "remove" => want # None /\ target \in Version
    /\ pc \in {"write", "link", "swap"} => target = data + 1
    /\ pc = "swap" => tmp = target
    /\ pc \in {"adjust", "prune"} => data = target /\ tmp = 0
    /\ pc \in {"swap", "adjust", "prune"} => versions[target] # None
    /\ pc = "write" => pending \subseteq Names(want)
    /\ pc = "remove" => want = None

\* What a run has written so far is there, and all of it before it is published.
Complete ==
    /\ pc = "write" => \A n \in Names(want) \ (pending \cup failed) : OldFiles[n] = want[n]
    /\ pc \in {"link", "swap", "adjust", "prune"} => \A n \in Names(want) : OldFiles[n] = want[n]

\* As long as nothing has gone wrong there is nothing else: no other version
\* outside the updates, no other file in the version and no other link.
Spotless ==
    faults = 0 =>
        /\ failed = {}
        /\ pc \in {"write", "link", "swap", "adjust", "prune"} =>
              \A n \in Name \ Names(want) : OldFiles[n] = None
        /\ pc \in {"idle", "write", "link", "swap"} =>
              /\ \A v \in Version : versions[v] # None => v = data \/ (v = target /\ pc # "idle")
              /\ links = Names(Published)
              /\ data = 0 \/ versions[data] # None
        /\ pc = "prune" => links = Names(want)

Shown ==
    /\ outcome \in {"ok", "unchanged"} => pc = "idle"
    /\ outcome = "unchanged" => Published = Wanted
    /\ outcome = "ok" /\ faults = 0 => Published = Wanted

IInv == TypeOK /\ Phase /\ Complete /\ Spotless /\ Shown

\* Whatever fails and wherever runs die, what a reader sees behind the link are
\* the files of one complete update, as Directory describes.
D == INSTANCE Directory WITH wanted <- want, shown <- Published, disturbed <- (faults # 0)
ImplementsDirectory == D!Spec

\* The files of the version "..data" points to are never written again: whoever
\* opened the directory behind the link reads one version to the end.
PublishedNeverRewritten ==
    [][(data # 0 /\ data' = data /\ pc # "remove" /\ versions[data] # None)
          => versions'[data] = versions[data]]_vars

\* A file that both the old and the new input have is never missing for a
\* reader, not even between the steps of an update that fails or dies.
SharedNamesNeverVanish ==
    [][\A n \in Name : (View[n] # None /\ Wanted[n] # None /\ pc # "idle") => View'[n] # None]_vars

\* A run that plans nothing for the directory has found exactly what it wants
\* there, however the runs before it ended.
UnchangedIsExact == outcome = "unchanged" => Published = Wanted

\* Without faults a run that ends well shows its readers exactly the input, and
\* leaves no link that leads nowhere and no other version.
CleanRunShowsInput ==
    (outcome \in {"ok", "unchanged"} /\ faults = 0)
        => /\ View = Wanted /\ links = Names(Wanted)
           /\ \A v \in Version : versions[v] # None => v = data

\* "Re-running syslet re-establishes the desired state"
\* (docs/explanation/reconciliation-model.md:15): after a run that ends well, a
\* reader finds every file of the input under its name.
OkRunShowsInput ==
    outcome \in {"ok", "unchanged"} => \A n \in Names(Wanted) : View[n] = Wanted[n]

=============================================================================
