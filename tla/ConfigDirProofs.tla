-------------------------- MODULE ConfigDirProofs --------------------------
(* Proofs about ConfigDir, for every set of names, contents and inputs, any *)
(* number of versions and any number of faults.                            *)
EXTENDS ConfigDir, TLAPS

USE DEF Maybe, disk, run

\* The invariant of ConfigDir is proved in two layers: which version a run works
\* on, and on top of that what the versions hold.
Basic == TypeOK /\ Phase

\* What is left of a version directory is a version directory: RemoveAll, wherever
\* it stops, makes no file and changes none.
LEMMA RemnantTyped ==
    ASSUME TypeOK, NEW v \in Version, NEW kept \in SUBSET Name
    PROVE  Remnant(v, kept) \in Maybe(OnDisk)
<1>1. CASE versions[v] = None
  BY <1>1 DEF Remnant
<1>2. CASE versions[v] # None
  <2>1. versions[v] \in [Name -> Maybe(Value) \cup {Torn}]
    BY <1>2 DEF TypeOK, OnDisk
  <2>2. [n \in Name |-> IF n \in kept THEN versions[v][n] ELSE None]
           \in [Name -> Maybe(Value) \cup {Torn}]
    BY <2>1
  <2>. QED
    BY <1>2, <2>2 DEF Remnant, OnDisk
<1>. QED
  BY <1>1, <1>2

\* Writing one file keeps the version directories typed, and writes into the
\* version of the run alone.
LEMMA WrittenTyped ==
    ASSUME TypeOK, NEW n \in Name, NEW x \in Maybe(Value) \cup {Torn},
           Written(n, x), target \in Version
    PROVE  /\ versions' \in [Version -> Maybe(OnDisk)]
           /\ versions'[target] # None
           /\ \A v \in Version \ {target} : versions'[v] = versions[v]
<1>1. OldFiles \in OnDisk
  BY DEF OldFiles, Empty, OnDisk, TypeOK
<1>2. [OldFiles EXCEPT ![n] = x] \in OnDisk
  BY <1>1 DEF OnDisk
<1>3. [OldFiles EXCEPT ![n] = x] # None
  BY <1>2, NoneAndTornAreFresh
<1>. QED
  BY <1>2, <1>3 DEF Written, TypeOK

\* Making the directory of the version changes no file of any version.
LEMMA DirMadeTyped ==
    ASSUME TypeOK, DirMade, target \in Version
    PROVE  /\ versions' \in [Version -> Maybe(OnDisk)]
           /\ OldFiles \in OnDisk /\ versions'[target] = OldFiles /\ versions'[target] # None
           /\ \A v \in Version \ {target} : versions'[v] = versions[v]
           /\ \A v \in Version : versions[v] # None => versions'[v] = versions[v]
<1>1. OldFiles \in OnDisk
  BY DEF OldFiles, Empty, OnDisk, TypeOK
<1>2. OldFiles # None
  BY <1>1, NoneAndTornAreFresh
<1>. QED
  BY <1>1, <1>2 DEF DirMade, TypeOK, OldFiles

\* An operation that gives up leaves the directory as it found it.
LEMMA FailKeepsBasic ==
    ASSUME Basic, Fail
    PROVE  Basic'
<1>1. TypeOK'
  BY BoundsAreNatural DEF Basic, TypeOK, Fail, Fault, End
<1>2. Phase'
  BY DEF Fail, End, Phase
<1>. QED
  BY <1>1, <1>2 DEF Basic

\* The initial directory, which does not exist, satisfies the invariant.
LEMMA InitKeepsBasic == Init => Basic
<1>. SUFFICES ASSUME Init PROVE Basic
  OBVIOUS
<1>1. versions \in [Version -> Maybe(OnDisk)]
  BY DEF Init
<1>2. TypeOK
  BY <1>1, BoundsAreNatural DEF Init, TypeOK
<1>3. Phase
  BY DEF Init, Phase
<1>. QED
  BY <1>2, <1>3 DEF Basic

\* A run chooses the version after the published one.
LEMMA PlanKeepsBasic ==
    ASSUME Basic, NEW w \in Wants, Plan(w)
    PROVE  Basic'
<1>1. TypeOK'
  <2>1. w \in Maybe(Contents)
    BY WantsTyped
  <2>2. Names(w) \subseteq Name
    BY DEF Names
  <2>3. target' \in 0..MaxVersion
    BY BoundsAreNatural DEF Basic, TypeOK, Plan, Version
  <2>. QED
    BY <2>1, <2>2, <2>3 DEF Basic, TypeOK, Plan
<1>2. Phase'
  BY BoundsAreNatural DEF Plan, Phase, NextVersion, Version, Names
<1>. QED
  BY <1>1, <1>2 DEF Basic

\* The steps that fill the new version and publish it.
LEMMA PublishKeepsBasic ==
    ASSUME Basic, \/ \E n \in Name : WriteVersionedDirFile(n)
                  \/ AllWritten \/ MakeTmpLink \/ SwapDataLink
    PROVE  Basic'
<1>1. ASSUME NEW n \in Name, WriteVersionedDirFile(n) PROVE Basic'
  <2>1. target \in Version /\ want # None /\ n \in Names(want) /\ pc = "write"
    BY <1>1 DEF Basic, Phase, WriteVersionedDirFile
  <2>2. want \in [Name -> Maybe(Value)]
    BY <2>1 DEF Basic, TypeOK, Contents
  <2>3. want[n] \in Maybe(Value)
    BY <2>2
  <2>4. versions' \in [Version -> Maybe(OnDisk)]
    BY <1>1, <2>1, <2>3, WrittenTyped, DirMadeTyped DEF Basic, TypeOK, WriteVersionedDirFile
  <2>5. TypeOK'
    BY <1>1, <2>4, BoundsAreNatural DEF Basic, TypeOK, WriteVersionedDirFile, Fault
  <2>6. Phase'
    BY <1>1, <2>1 DEF Basic, Phase, WriteVersionedDirFile
  <2>. QED
    BY <2>5, <2>6 DEF Basic
<1>2. CASE AllWritten
  <2>1. TypeOK'
    BY <1>2 DEF Basic, TypeOK, AllWritten, End, Goto
  <2>2. Phase'
    BY <1>2 DEF Basic, Phase, AllWritten, End, Goto
  <2>. QED
    BY <2>1, <2>2 DEF Basic
<1>3. CASE MakeTmpLink
  <2>1. target \in Version /\ pc = "link"
    BY <1>3 DEF MakeTmpLink, Basic, Phase
  <2>2. versions' \in [Version -> Maybe(OnDisk)] /\ (DirMade => versions'[target] # None)
    BY <1>3, <2>1, DirMadeTyped DEF MakeTmpLink, PartlyLinked, Basic, TypeOK
  <2>3. TypeOK'
    BY <1>3, <2>1, <2>2, BoundsAreNatural
       DEF MakeTmpLink, PartlyLinked, Basic, TypeOK, Version, Fault, End, Goto
  <2>4. Phase'
    BY <1>3, <2>1, <2>2 DEF MakeTmpLink, Basic, Phase, End, Goto
  <2>. QED
    BY <2>3, <2>4 DEF Basic
<1>4. CASE SwapDataLink
  <2>1. CASE Fail
    BY <2>1, FailKeepsBasic
  <2>2. CASE ~Fail
    <3>1. TypeOK'
      BY <1>4, <2>2, BoundsAreNatural DEF SwapDataLink, Basic, TypeOK, Goto
    <3>2. Phase'
      BY <1>4, <2>2 DEF SwapDataLink, Basic, Phase, Goto
    <3>. QED
      BY <3>1, <3>2 DEF Basic
  <2>. QED
    BY <2>1, <2>2
<1>. QED
  BY <1>1, <1>2, <1>3, <1>4

\* The steps that adjust the links and prune.
LEMMA TidyKeepsBasic ==
    ASSUME Basic, \/ \E n \in Name : RemoveStaleLink(n) \/ MakeNewLink(n)
                  \/ \E v \in Version : PruneOldVersion(v)
                  \/ LinksAdjusted \/ Pruned
    PROVE  Basic'
<1>1. ASSUME NEW n \in Name, RemoveStaleLink(n) PROVE Basic'
  <2>1. CASE Fail
    BY <2>1, FailKeepsBasic
  <2>2. CASE ~Fail
    BY <1>1, <2>2 DEF Basic, TypeOK, Phase, RemoveStaleLink, Goto
  <2>. QED
    BY <2>1, <2>2
<1>2. ASSUME NEW n \in Name, MakeNewLink(n) PROVE Basic'
  <2>1. CASE Fail
    BY <2>1, FailKeepsBasic
  <2>2. CASE ~Fail
    BY <1>2, <2>2 DEF Basic, TypeOK, Phase, MakeNewLink, Goto
  <2>. QED
    BY <2>1, <2>2
<1>3. ASSUME NEW v \in Version, PruneOldVersion(v) PROVE Basic'
  <2>1. \A kept \in SUBSET Name : Remnant(v, kept) \in Maybe(OnDisk)
    BY RemnantTyped DEF Basic
  <2>2. versions' \in [Version -> Maybe(OnDisk)]
    BY <1>3, <2>1 DEF Basic, TypeOK, PruneOldVersion, PartlyPruned
  <2>3. TypeOK'
    BY <1>3, <2>2, BoundsAreNatural DEF Basic, TypeOK, PruneOldVersion, Fault, End, Goto
  <2>4. Phase'
    BY <1>3 DEF Basic, TypeOK, Phase, PruneOldVersion, PartlyPruned, End, Goto
  <2>. QED
    BY <2>3, <2>4 DEF Basic
<1>4. CASE LinksAdjusted
  BY <1>4 DEF Basic, TypeOK, Phase, LinksAdjusted, Goto
<1>5. CASE Pruned
  BY <1>5 DEF Basic, TypeOK, Phase, Pruned, End
<1>. QED
  BY <1>1, <1>2, <1>3, <1>4, <1>5

\* The steps that end a run early or remove the directory.
LEMMA RemovalKeepsBasic ==
    ASSUME Basic, RemoveDir \/ Crash
    PROVE  Basic'
<1>1. PartlyRemoved => /\ versions' \in [Version -> Maybe(OnDisk)]
                       /\ links' \subseteq Name /\ data' \in 0..MaxVersion /\ tmp' \in 0..MaxVersion
  <2>. SUFFICES ASSUME PartlyRemoved
                PROVE  /\ versions' \in [Version -> Maybe(OnDisk)]
                       /\ links' \subseteq Name /\ data' \in 0..MaxVersion /\ tmp' \in 0..MaxVersion
    OBVIOUS
  <2>1. \A v \in Version, kept \in SUBSET Name : Remnant(v, kept) \in Maybe(OnDisk)
    BY RemnantTyped DEF Basic
  <2>2. versions' \in [Version -> Maybe(OnDisk)]
    BY <2>1 DEF PartlyRemoved, Basic, TypeOK
  <2>. QED
    BY <2>2, BoundsAreNatural DEF PartlyRemoved, Basic, TypeOK
<1>2. versions' \in [Version -> Maybe(OnDisk)]
      /\ links' \subseteq Name /\ data' \in 0..MaxVersion /\ tmp' \in 0..MaxVersion
  <2>1. CASE RemoveDir
    BY <1>1, <2>1, BoundsAreNatural DEF RemoveDir, Basic, TypeOK
  <2>2. CASE Crash
    <3>1. ASSUME NEW n \in pending, pc = "write", Written(n, Torn)
          PROVE  versions' \in [Version -> Maybe(OnDisk)]
      BY <3>1, WrittenTyped DEF Basic, TypeOK, Phase
    <3>2. ASSUME NEW v \in Version \ {target}, PartlyPruned(v)
          PROVE  versions' \in [Version -> Maybe(OnDisk)]
      BY <3>2, RemnantTyped DEF Basic, TypeOK, PartlyPruned
    <3>3. DirMade /\ pc \in {"write", "link"} => versions' \in [Version -> Maybe(OnDisk)]
      BY DirMadeTyped DEF Basic, Phase
    <3>. QED
      BY <1>1, <2>2, <3>1, <3>2, <3>3, BoundsAreNatural DEF Crash, PartlyLinked, Basic, TypeOK
  <2>. QED
    BY <2>1, <2>2
<1>3. TypeOK'
  BY <1>2, BoundsAreNatural DEF Basic, TypeOK, RemoveDir, Crash, Fault, End
<1>4. Phase'
  BY DEF Phase, RemoveDir, Crash, End
<1>. QED
  BY <1>3, <1>4 DEF Basic

\* No step of a run works on another version than the one it should.
LEMMA NextKeepsBasic == Basic /\ [Next]_vars => Basic'
<1>. SUFFICES ASSUME Basic, [Next]_vars PROVE Basic'
  OBVIOUS
<1>1. CASE Next
  BY <1>1, PlanKeepsBasic, PublishKeepsBasic, TidyKeepsBasic, RemovalKeepsBasic DEF Next
<1>2. CASE UNCHANGED vars
  BY <1>2 DEF vars, Basic, TypeOK, Phase
<1>. QED
  BY <1>1, <1>2

\* Writing a file changes that file of the new version and nothing else.
LEMMA WrittenFile ==
    ASSUME Basic, NEW n \in Name, NEW x \in Maybe(Value) \cup {Torn},
           Written(n, x), target \in Version, target' = target
    PROVE  OldFiles' = [OldFiles EXCEPT ![n] = x] /\ OldFiles \in OnDisk
<1>1. OldFiles \in OnDisk
  BY DEF OldFiles, Empty, OnDisk, Basic, TypeOK
<1>2. versions'[target] = [OldFiles EXCEPT ![n] = x]
  BY DEF Written, Basic, TypeOK
<1>3. versions'[target] # None
  BY WrittenTyped DEF Basic
<1>. QED
  BY <1>1, <1>2, <1>3 DEF OldFiles

\* No other step of an update touches what the new version holds.
LEMMA VersionKept ==
    ASSUME Basic, pc \notin {"idle", "write", "remove"}, [Next]_vars, pc' # "idle"
    PROVE  target' = target /\ want' = want /\ failed' = failed /\ OldFiles' = OldFiles
<1>. target \in Version
  BY DEF Basic, Phase
<1>1. CASE MakeTmpLink
  <2>1. DirMade
    BY <1>1 DEF MakeTmpLink, End
  <2>. QED
    BY <1>1, <2>1, DirMadeTyped DEF MakeTmpLink, End, Goto, OldFiles, Basic
<1>2. CASE SwapDataLink \/ LinksAdjusted \/ \E n \in Name : RemoveStaleLink(n) \/ MakeNewLink(n)
  BY <1>2 DEF SwapDataLink, LinksAdjusted, RemoveStaleLink, MakeNewLink, Fail, End, Goto, OldFiles
<1>3. ASSUME NEW v \in Version, PruneOldVersion(v)
      PROVE  target' = target /\ want' = want /\ failed' = failed /\ OldFiles' = OldFiles
  BY <1>3 DEF PruneOldVersion, PartlyPruned, End, Goto, OldFiles, Basic, TypeOK
<1>4. ~(\E w \in Wants : Plan(w)) /\ ~(\E n \in Name : WriteVersionedDirFile(n))
      /\ ~AllWritten /\ ~Pruned /\ ~RemoveDir /\ ~Crash
  BY DEF Plan, WriteVersionedDirFile, AllWritten, Pruned, RemoveDir, Crash, End
<1>5. CASE UNCHANGED vars
  BY <1>5 DEF vars, OldFiles
<1>. QED
  BY <1>1, <1>2, <1>3, <1>4, <1>5 DEF Next

\* Every file of the input is in the new version before it is published.
LEMMA NextKeepsComplete ==
    ASSUME Basic, Complete, [Next]_vars
    PROVE  Complete'
<1>1. CASE pc = "idle"
  <2>1. \/ UNCHANGED vars
        \/ \E w \in Wants : Plan(w)
    BY <1>1 DEF Next, WriteVersionedDirFile, RemoveStaleLink, MakeNewLink, AllWritten,
                MakeTmpLink, SwapDataLink, LinksAdjusted, PruneOldVersion, Pruned, RemoveDir, Crash
  <2>2. CASE UNCHANGED vars
    BY <1>1, <2>2 DEF vars, Complete
  <2>3. ASSUME NEW w \in Wants, Plan(w) PROVE Complete'
    BY <1>1, <2>3 DEF Plan, Complete
  <2>. QED
    BY <2>1, <2>2, <2>3
<1>2. CASE pc = "write"
  <2>1. target \in Version /\ want \in [Name -> Maybe(Value)]
    BY <1>2 DEF Basic, Phase, TypeOK, Contents
  <2>2. ASSUME NEW n \in Name, WriteVersionedDirFile(n) PROVE Complete'
    <3>1. want[n] \in Maybe(Value) /\ UNCHANGED <<want, target, pc>>
      BY <2>1, <2>2 DEF WriteVersionedDirFile
    <3>2. CASE Written(n, want[n]) /\ failed' = failed
      <4>1. OldFiles' = [OldFiles EXCEPT ![n] = want[n]] /\ OldFiles \in OnDisk
        BY <2>1, <3>1, <3>2, WrittenFile
      <4>. QED
        BY <1>2, <2>2, <3>1, <3>2, <4>1 DEF Complete, WriteVersionedDirFile, Names, OnDisk
    <3>3. CASE Written(n, Torn) /\ failed' = failed \cup {n}
      <4>1. OldFiles' = [OldFiles EXCEPT ![n] = Torn] /\ OldFiles \in OnDisk
        BY <2>1, <3>1, <3>3, WrittenFile
      <4>. QED
        BY <1>2, <2>2, <3>1, <3>3, <4>1 DEF Complete, WriteVersionedDirFile, Names, OnDisk
    <3>4. CASE versions' = versions /\ failed' = failed \cup {n}
      BY <1>2, <2>2, <3>1, <3>4 DEF Complete, WriteVersionedDirFile, Names, OldFiles
    <3>5. CASE DirMade /\ failed' = failed \cup {n}
      <4>1. OldFiles' = OldFiles
        BY <2>1, <3>1, <3>5, DirMadeTyped DEF OldFiles, Basic
      <4>. QED
        BY <1>2, <2>2, <3>1, <3>5, <4>1 DEF Complete, WriteVersionedDirFile, Names
    <3>. QED
      BY <2>2, <3>2, <3>3, <3>4, <3>5 DEF WriteVersionedDirFile
  <2>3. CASE AllWritten
    BY <1>2, <2>3 DEF AllWritten, Complete, End, Goto, OldFiles
  <2>4. CASE Crash
    BY <2>4 DEF Crash, End, Complete
  <2>5. CASE UNCHANGED vars
    BY <1>2, <2>5 DEF vars, Complete, OldFiles
  <2>. QED
    BY <1>2, <2>2, <2>3, <2>4, <2>5
    DEF Next, Plan, RemoveStaleLink, MakeNewLink, MakeTmpLink, SwapDataLink,
        LinksAdjusted, PruneOldVersion, Pruned, RemoveDir
<1>3. CASE pc \in {"link", "swap", "adjust", "prune"}
  <2>1. CASE pc' = "idle"
    BY <2>1 DEF Complete
  <2>2. CASE pc' # "idle"
    <3>1. target' = target /\ want' = want /\ OldFiles' = OldFiles
      BY <1>3, <2>2, VersionKept
    <3>2. pc' # "write"
      BY <1>3, <2>2 DEF Next, Plan, WriteVersionedDirFile, RemoveStaleLink, MakeNewLink,
           AllWritten, MakeTmpLink, SwapDataLink, LinksAdjusted, PruneOldVersion, Pruned,
           RemoveDir, Crash, Fail, End, Goto, vars
    <3>. QED
      BY <1>3, <3>1, <3>2 DEF Complete
  <2>. QED
    BY <2>1, <2>2
<1>4. CASE pc = "remove"
  BY <1>4 DEF Next, Plan, WriteVersionedDirFile, RemoveStaleLink, MakeNewLink, AllWritten,
       MakeTmpLink, SwapDataLink, LinksAdjusted, PruneOldVersion, Pruned, RemoveDir, Crash,
       End, vars, Complete
<1>. QED
  BY <1>1, <1>2, <1>3, <1>4 DEF Basic, TypeOK

\* A step after which nothing has gone wrong is not a fault.
LEMMA NoFault ==
    ASSUME Basic, [Next]_vars, faults' = 0
    PROVE  faults = 0 /\ ~Crash /\ ~Fail /\ \A kind : ~Fault(kind)
<1>1. \A kind : ~Fault(kind)
  BY DEF Fault, Basic, TypeOK
<1>2. ~Crash /\ ~Fail
  BY <1>1 DEF Crash, Fail
<1>3. faults' = faults
  BY <1>1, <1>2 DEF Next, vars, Plan, WriteVersionedDirFile, RemoveStaleLink, MakeNewLink,
       AllWritten, MakeTmpLink, SwapDataLink, LinksAdjusted, PruneOldVersion, Pruned, RemoveDir, Goto
<1>. QED
  BY <1>1, <1>2, <1>3

\* What "..data" leads to, once the link is in place.
LEMMA PublishedVersion ==
    ASSUME Basic
    PROVE  /\ data # 0 /\ versions[data] # None => data \in Version /\ Published = versions[data]
           /\ data = 0 => Published = Empty
           /\ Published \in OnDisk
BY BoundsAreNatural DEF Basic, TypeOK, Version, Published, Empty, OnDisk

\* As long as nothing goes wrong a run leaves nothing but its input behind.
LEMMA NextKeepsSpotless ==
    ASSUME Basic, Complete, Spotless, [Next]_vars
    PROVE  Spotless'
<1>. SUFFICES ASSUME faults' = 0
              PROVE  Spotless'
  BY DEF Spotless
<1>0. faults = 0 /\ ~Crash /\ ~Fail /\ \A kind : ~Fault(kind)
  BY NoFault
<1>1. ASSUME NEW w \in Wants, Plan(w) PROVE Spotless'
  <2>1. UNCHANGED <<versions, data, links, faults>> /\ failed' = {} /\ Published' = Published
    BY <1>1 DEF Plan, Published
  <2>2. pc' = "write" => OldFiles' = Empty /\ target' # data
    BY <1>0, <1>1, <2>1 DEF Plan, Spotless, OldFiles, NextVersion, Version, Basic, TypeOK
  <2>3. pc = "idle" /\ pc' \in {"idle", "write", "remove"}
    BY <1>1 DEF Plan
  <2>. QED
    BY <1>0, <2>1, <2>2, <2>3 DEF Spotless, Empty, Names
<1>2. ASSUME NEW n \in Name, WriteVersionedDirFile(n) PROVE Spotless'
  <2>1. /\ Written(n, want[n]) /\ pc = "write" /\ target \in Version /\ n \in Names(want)
        /\ UNCHANGED <<want, target, failed, data, links, pc>>
    <3>1. pc = "write" /\ n \in pending /\ pending \subseteq Names(want) /\ target \in Version
      BY <1>2 DEF WriteVersionedDirFile, Basic, Phase
    <3>2. ~Fault("fail")
      BY <1>0
    <3>. QED
      BY <1>2, <3>1, <3>2 DEF WriteVersionedDirFile
  <2>2. want[n] \in Maybe(Value)
    BY <2>1 DEF Basic, TypeOK, Phase, Contents, Names
  <2>3. OldFiles' = [OldFiles EXCEPT ![n] = want[n]] /\ OldFiles \in OnDisk
    BY <2>1, <2>2, WrittenFile
  <2>4. \A v \in Version \ {target} : versions'[v] = versions[v]
    BY <2>1, <2>2, WrittenTyped DEF Basic
  <2>5. target # data
    BY <2>1, BoundsAreNatural DEF Basic, TypeOK, Phase, Version
  <2>6. Published' = Published /\ (data = 0 \/ versions'[data] # None)
    BY <1>0, <2>1, <2>4, <2>5, BoundsAreNatural DEF Published, Spotless, Basic, TypeOK, Version
  <2>. QED
    BY <1>0, <2>1, <2>3, <2>4, <2>6 DEF Spotless, OnDisk, Names
<1>3. CASE AllWritten
  BY <1>0, <1>3 DEF AllWritten, Goto, Spotless, OldFiles, Published
<1>4. CASE MakeTmpLink
  <2>1. /\ pc = "link" /\ target \in Version /\ target # data
        /\ versions' = [versions EXCEPT ![target] = OldFiles]
        /\ Goto("swap") /\ UNCHANGED <<data, links>>
    BY <1>0, <1>4, BoundsAreNatural DEF MakeTmpLink, DirMade, End, Basic, Phase, TypeOK, Version
  <2>2. OldFiles # None
    BY NoneAndTornAreFresh DEF OldFiles, Empty, OnDisk, Basic, TypeOK
  <2>3. OldFiles' = OldFiles /\ Published' = Published
    BY <2>1, <2>2 DEF OldFiles, Published, Goto, Basic, TypeOK
  <2>. QED
    BY <1>0, <2>1, <2>3, BoundsAreNatural DEF Spotless, Goto, Basic, TypeOK, Version
<1>5. CASE SwapDataLink
  BY <1>0, <1>5 DEF SwapDataLink, Goto, Spotless, OldFiles
<1>6. ASSUME NEW n \in Name, RemoveStaleLink(n) \/ MakeNewLink(n) PROVE Spotless'
  BY <1>0, <1>6 DEF RemoveStaleLink, MakeNewLink, Goto, Spotless, OldFiles
<1>7. CASE LinksAdjusted
  <2>1. links = Names(versions[target]) /\ versions[target] = OldFiles
    BY <1>7 DEF LinksAdjusted, StaleLinks, NewLinks, Names, Basic, Phase, TypeOK, OldFiles
  <2>2. links = Names(want)
    BY <1>0, <1>7, <2>1 DEF LinksAdjusted, Spotless, Complete, Names
  <2>. QED
    BY <1>0, <1>7, <2>2 DEF LinksAdjusted, Goto, Spotless, OldFiles
<1>8. ASSUME NEW v \in Version, PruneOldVersion(v) PROVE Spotless'
  BY <1>0, <1>8 DEF PruneOldVersion, Goto, Spotless, OldFiles, Basic, TypeOK, Phase
<1>9. CASE Pruned
  <2>1. /\ pc = "prune" /\ pc' = "idle" /\ data = target /\ target \in Version
        /\ versions[target] # None
        /\ UNCHANGED <<versions, data, links, want, target, failed>>
    BY <1>9 DEF Pruned, End, Basic, Phase
  <2>2. Published' = OldFiles
    BY <2>1, PublishedVersion DEF Published, OldFiles
  <2>3. links = Names(OldFiles)
    BY <1>0, <2>1 DEF Spotless, Complete, Names
  <2>. QED
    BY <1>0, <1>9, <2>1, <2>2, <2>3 DEF Pruned, Spotless, Names
<1>10. CASE RemoveDir
  <2>1. Published' = Empty
    BY <1>0, <1>10 DEF RemoveDir, Published
  <2>. QED
    BY <1>0, <1>10, <2>1 DEF RemoveDir, End, Spotless, Names, Empty
<1>11. CASE UNCHANGED vars
  BY <1>11 DEF vars, Spotless, OldFiles, Published
<1>. QED
  BY <1>0, <1>1, <1>2, <1>3, <1>4, <1>5, <1>6, <1>7, <1>8, <1>9, <1>10, <1>11 DEF Next

\* A run that plans nothing, or ends well undisturbed, leaves its input published.
LEMMA NextKeepsShown ==
    ASSUME IInv, [Next]_vars
    PROVE  Shown'
<1>. Basic
  BY DEF IInv, Basic
<1>1. ASSUME NEW w \in Wants, Plan(w) PROVE Shown'
  <2>1. Published' = Published /\ want' = w /\ pc = "idle"
    BY <1>1 DEF Plan, Published
  <2>2. CASE outcome' = "unchanged"
    <3>1. CASE w = None
      <4>1. data = 0
        BY <1>1, <2>2, <3>1 DEF Plan, Exists
      <4>. QED
        BY <1>1, <2>1, <2>2, <3>1, <4>1, PublishedVersion DEF Plan, Shown, Wanted
    <3>2. CASE w # None
      <4>1. w \in [Name -> Maybe(Value)]
        BY <3>2, WantsTyped DEF Contents
      <4>2. \A n \in Name : Published[n] = w[n]
        BY <1>1, <2>2, <3>2 DEF Plan, Changed, Names
      <4>3. Published = w
        BY <4>1, <4>2, PublishedVersion DEF OnDisk
      <4>. QED
        BY <1>1, <2>1, <2>2, <3>2, <4>3 DEF Plan, Shown, Wanted
    <3>. QED
      BY <3>1, <3>2
  <2>3. CASE outcome' # "unchanged"
    BY <1>1, <2>3 DEF Plan, Shown
  <2>. QED
    BY <2>2, <2>3
<1>2. CASE Pruned
  <2>1. CASE faults = 0
    <3>1. want \in [Name -> Maybe(Value)] /\ Names(want) \subseteq Name /\ want # None
      BY <1>2 DEF Pruned, IInv, TypeOK, Phase, Contents, Names
    <3>2. OldFiles = versions[target] /\ OldFiles \in OnDisk /\ Published = OldFiles
      BY <1>2, PublishedVersion DEF Pruned, OldFiles, IInv, Phase, TypeOK, Published
    <3>3. \A n \in Name : OldFiles[n] = want[n]
      BY <1>2, <2>1 DEF Pruned, IInv, Complete, Spotless, Names
    <3>4. Published = want
      BY <3>1, <3>2, <3>3 DEF OnDisk
    <3>. QED
      BY <1>2, <3>1, <3>4 DEF Pruned, End, Shown, Wanted, Published
  <2>2. CASE faults # 0
    BY <1>2, <2>2 DEF Pruned, End, Shown
  <2>. QED
    BY <2>1, <2>2
<1>3. CASE RemoveDir
  BY <1>3, BoundsAreNatural DEF RemoveDir, End, Fault, Shown, Published, Wanted, IInv, TypeOK, Phase
<1>4. CASE AllWritten \/ MakeTmpLink \/ Crash \/ Fail
  BY <1>4 DEF AllWritten, MakeTmpLink, Crash, Fail, End, Goto, Shown, IInv
<1>5. ASSUME NEW v \in Version, PruneOldVersion(v) PROVE Shown'
  BY <1>5 DEF PruneOldVersion, Fault, End, Goto, Shown, IInv, TypeOK
<1>6. CASE \/ \E n \in Name : WriteVersionedDirFile(n) \/ RemoveStaleLink(n) \/ MakeNewLink(n)
           \/ SwapDataLink \/ LinksAdjusted
  BY <1>4, <1>6 DEF WriteVersionedDirFile, RemoveStaleLink, MakeNewLink, SwapDataLink,
       LinksAdjusted, Goto, Shown, IInv
<1>7. CASE UNCHANGED vars
  BY <1>7 DEF vars, Shown, IInv, Published, Wanted
<1>. QED
  BY <1>1, <1>2, <1>3, <1>4, <1>5, <1>6, <1>7 DEF Next

\* The initial directory, which does not exist, satisfies the invariant.
LEMMA InitKeeps == Init => IInv
<1>. SUFFICES ASSUME Init PROVE IInv
  OBVIOUS
<1>1. Published = Empty
  BY DEF Init, Published
<1>2. Complete /\ Spotless /\ Shown
  BY <1>1 DEF Init, Complete, Spotless, Shown, Wanted, Names, Empty
<1>. QED
  BY <1>2, InitKeepsBasic DEF IInv, Basic

\* No step of a run leaves the invariant.
LEMMA NextKeeps == IInv /\ [Next]_vars => IInv'
BY NextKeepsBasic, NextKeepsComplete, NextKeepsSpotless, NextKeepsShown DEF IInv, Basic

\* A run writes only the version after the published one, has all of the input in
\* it before it publishes it and prunes only others after that, however often runs
\* fail or die between the steps of WriteFsContainerConfigDir.
THEOREM Invariance == Spec => []IInv
<1>. QED
  BY InitKeeps, NextKeeps, PTL DEF Spec

\* A run that plans nothing for the directory has found exactly its input there,
\* whatever the runs before it left behind.
THEOREM UnchangedExact == Spec => []UnchangedIsExact
<1>1. IInv => UnchangedIsExact
  BY DEF IInv, Shown, UnchangedIsExact
<1>. QED
  BY <1>1, Invariance, PTL

\* Undisturbed runs that end well show exactly their input under the stable names
\* and leave nothing else.
THEOREM CleanRunExact == Spec => []CleanRunShowsInput
<1>1. ASSUME IInv, outcome \in {"ok", "unchanged"}, faults = 0
      PROVE  /\ View = Wanted /\ links = Names(Wanted)
             /\ \A v \in Version : versions[v] # None => v = data
  <2>1. pc = "idle" /\ Published = Wanted /\ links = Names(Published)
    BY <1>1 DEF IInv, Shown, Spotless
  <2>2. Published \in [Name -> Maybe(Value) \cup {Torn}]
    BY <1>1, PublishedVersion DEF IInv, Basic, OnDisk
  <2>3. View = Published
    BY <2>1, <2>2 DEF View, Names
  <2>. QED
    BY <1>1, <2>1, <2>3 DEF IInv, Spotless
<1>2. IInv => CleanRunShowsInput
  BY <1>1 DEF CleanRunShowsInput
<1>. QED
  BY <1>2, Invariance, PTL

\* No step but the removal of the directory touches the version "..data" points to.
LEMMA PublishedKept ==
    ASSUME IInv, [Next]_vars, data # 0, data' = data, pc # "remove"
    PROVE  versions'[data] = versions[data]
<1>1. data \in Version
  BY BoundsAreNatural DEF IInv, TypeOK, Version
<1>2. pc \in {"write", "link"} => target # data /\ target \in Version
  BY <1>1 DEF IInv, Phase, Version
<1>3. ASSUME NEW n \in Name, NEW x, pc = "write", Written(n, x)
      PROVE  versions'[data] = versions[data]
  BY <1>1, <1>2, <1>3 DEF Written, IInv, TypeOK
<1>14. ASSUME DirMade, pc \in {"write", "link"} PROVE versions'[data] = versions[data]
  BY <1>1, <1>2, <1>14 DEF DirMade, IInv, TypeOK
<1>4. ASSUME NEW v \in Version, v # target, pc = "prune",
             versions' = [versions EXCEPT ![v] = None] \/ PartlyPruned(v)
      PROVE  versions'[data] = versions[data]
  BY <1>1, <1>4 DEF PartlyPruned, IInv, TypeOK, Phase
<1>5. ASSUME NEW n \in Name, WriteVersionedDirFile(n)
      PROVE  versions'[data] = versions[data]
  BY <1>3, <1>5, <1>14 DEF WriteVersionedDirFile
<1>6. CASE MakeTmpLink
  BY <1>6, <1>14 DEF MakeTmpLink, PartlyLinked
<1>7. ASSUME NEW v \in Version, PruneOldVersion(v)
      PROVE  versions'[data] = versions[data]
  BY <1>4, <1>7 DEF PruneOldVersion
<1>8. CASE Crash
  <2>1. pending \subseteq Name
    BY DEF IInv, TypeOK
  <2>. QED
    BY <1>3, <1>4, <1>8, <1>14, <2>1 DEF Crash, PartlyLinked
<1>9. CASE RemoveDir
  BY <1>9 DEF RemoveDir
<1>10. ASSUME NEW w \in Wants, Plan(w) PROVE versions' = versions
  BY <1>10 DEF Plan
<1>11. CASE AllWritten \/ SwapDataLink \/ LinksAdjusted \/ Pruned
  BY <1>11 DEF AllWritten, SwapDataLink, LinksAdjusted, Pruned, Fail
<1>12. ASSUME NEW n \in Name, RemoveStaleLink(n) \/ MakeNewLink(n) PROVE versions' = versions
  BY <1>12 DEF RemoveStaleLink, MakeNewLink, Fail
<1>13. CASE UNCHANGED vars
  BY <1>13 DEF vars
<1>. QED
  BY <1>5, <1>6, <1>7, <1>8, <1>9, <1>10, <1>11, <1>12, <1>13 DEF Next

\* "..data" is moved by the swap alone, to the new version.
LEMMA OnlySwapMoves ==
    ASSUME IInv, [Next]_vars, data' # data, pc # "remove"
    PROVE  /\ pc = "swap" /\ target \in Version /\ data' = target /\ versions[target] # None
           /\ UNCHANGED <<versions, links, want, faults>>
BY DEF IInv, Phase, Next, vars, Plan, WriteVersionedDirFile, RemoveStaleLink, MakeNewLink, AllWritten,
       MakeTmpLink, PartlyLinked, SwapDataLink, LinksAdjusted, PruneOldVersion, Pruned, RemoveDir, Crash,
       Fail, Goto

\* The version "..data" points to is never written or pruned while it is the
\* published one, except by the removal of the whole directory: a container that
\* reads through the link never sees a half-written file of the version it reads.
THEOREM PublishedStays == Spec => PublishedNeverRewritten
<1>1. IInv /\ [Next]_vars
         => ((data # 0 /\ data' = data /\ pc # "remove" /\ versions[data] # None)
                => versions'[data] = versions[data])
  BY PublishedKept
<1>. QED
  BY <1>1, Invariance, PTL DEF Spec, PublishedNeverRewritten

\* The links of names the input keeps survive every step of an update.
LEMMA WantedLinkKept ==
    ASSUME IInv, [Next]_vars, NEW n \in Name, pc \notin {"idle", "remove"}, want # None,
           n \in Names(want), n \in links
    PROVE  n \in links'
<1>1. ASSUME NEW m \in Name, RemoveStaleLink(m) PROVE n \in links'
  <2>1. want[n] # None /\ versions[target] = OldFiles
    BY <1>1 DEF Names, RemoveStaleLink, IInv, Phase, OldFiles
  <2>2. n \in Names(versions[target])
    BY <1>1, <2>1 DEF Names, RemoveStaleLink, IInv, Complete
  <2>. QED
    BY <1>1, <2>2 DEF RemoveStaleLink, StaleLinks, Fail
<1>. QED
  BY <1>1 DEF Next, vars, Plan, WriteVersionedDirFile, MakeNewLink, AllWritten, MakeTmpLink,
       SwapDataLink, LinksAdjusted, PruneOldVersion, Pruned, RemoveDir, Crash, PartlyLinked, Fail, Goto

\* A name the old and the new input share leads to a file at every moment of an
\* update, whether the update completes, fails or dies.
THEOREM SharedNamesStay == Spec => SharedNamesNeverVanish
<1>1. ASSUME IInv, [Next]_vars, NEW n \in Name, View[n] # None, Wanted[n] # None, pc # "idle"
      PROVE  View'[n] # None
  <2>1. want # None /\ n \in Names(want) /\ want[n] # None /\ pc # "remove"
    BY <1>1 DEF Wanted, Empty, Names, IInv, Phase
  <2>2. n \in links /\ Published[n] # None
    BY <1>1 DEF View
  <2>3. data \in Version /\ versions[data] # None /\ Published = versions[data]
    BY <1>1, <2>2 DEF Published, Empty
  <2>4. n \in links'
    BY <1>1, <2>1, <2>2, WantedLinkKept
  <2>5. Published'[n] # None
    <3>1. CASE data' = data
      BY <1>1, <2>1, <2>2, <2>3, <3>1, PublishedKept, BoundsAreNatural DEF Published, Version
    <3>2. CASE data' # data
      <4>1. /\ pc = "swap" /\ target \in Version /\ data' = target
            /\ versions[target] # None /\ versions' = versions
        BY <1>1, <2>1, <3>2, OnlySwapMoves
      <4>2. Published' = OldFiles
        BY <4>1 DEF Published, OldFiles
      <4>. QED
        BY <1>1, <2>1, <4>1, <4>2 DEF IInv, Complete
    <3>. QED
      BY <3>1, <3>2
  <2>. QED
    BY <2>4, <2>5 DEF View
<1>2. IInv /\ [Next]_vars
         => \A n \in Name : (View[n] # None /\ Wanted[n] # None /\ pc # "idle") => View'[n] # None
  BY <1>1
<1>. QED
  BY <1>2, Invariance, PTL DEF Spec, SharedNamesNeverVanish

-----------------------------------------------------------------------------
\* A step of an update publishes the input or shows what was shown before.
LEMMA UpdateRefines ==
    ASSUME IInv, [Next]_vars, pc \notin {"idle", "remove"}
    PROVE  [D!Next]_(D!vars)
<1>1. want' = want
  BY DEF Next, vars, Plan, WriteVersionedDirFile, RemoveStaleLink, MakeNewLink, AllWritten,
       MakeTmpLink, SwapDataLink, LinksAdjusted, PruneOldVersion, Pruned, RemoveDir, Crash, Fail, Goto, End
<1>2. faults' = faults \/ faults' = faults + 1
  BY DEF Next, vars, Plan, WriteVersionedDirFile, RemoveStaleLink, MakeNewLink, AllWritten,
       MakeTmpLink, SwapDataLink, LinksAdjusted, PruneOldVersion, Pruned, RemoveDir, Crash, Fail, Goto,
       Fault
<1>3. CASE data' = data
  <2>1. Published' = Published
    BY <1>3, PublishedKept, BoundsAreNatural DEF Published, Version
  <2>2. faults \in Nat
    BY BoundsAreNatural DEF IInv, TypeOK
  <2>3. (faults' = faults) \/ (faults' # 0)
    BY <1>2, <2>2
  <2>. QED
    BY <1>1, <2>1, <2>3 DEF D!Next, D!Disturb, D!vars
<1>4. CASE data' # data
  <2>1. /\ pc = "swap" /\ target \in Version /\ data' = target /\ versions[target] # None
        /\ versions' = versions /\ faults' = faults
    BY <1>4, OnlySwapMoves
  <2>2. Published' = OldFiles /\ OldFiles \in D!OnDisk
    BY <2>1 DEF Published, OldFiles, IInv, TypeOK, OnDisk, D!OnDisk
  <2>3. want \in [Name -> Maybe(Value)] /\ want # None
    BY <2>1 DEF IInv, TypeOK, Phase, Contents
  <2>4. \A n \in Name : want[n] # None => OldFiles[n] = want[n]
    BY <2>1 DEF IInv, Complete, Names
  <2>5. faults = 0 => OldFiles = want
    <3>1. faults = 0 => \A n \in Name : OldFiles[n] = want[n]
      BY <2>1, <2>4 DEF IInv, Spotless, Names
    <3>. QED
      BY <2>2, <2>3, <3>1 DEF D!OnDisk
  <2>. QED
    BY <1>1, <2>1, <2>2, <2>3, <2>4, <2>5 DEF D!Next, D!Publish
<1>. QED
  BY <1>3, <1>4

\* A step of a removal takes files away, all of them unless something goes wrong.
LEMMA RemovalRefines ==
    ASSUME IInv, [Next]_vars, pc = "remove"
    PROVE  [D!Next]_(D!vars)
<1>1. UNCHANGED vars \/ RemoveDir \/ Crash
  BY DEF Next, Plan, WriteVersionedDirFile, RemoveStaleLink, MakeNewLink, AllWritten,
       MakeTmpLink, SwapDataLink, LinksAdjusted, PruneOldVersion, Pruned
<1>2. CASE UNCHANGED vars
  BY <1>2 DEF vars, D!vars, Published
<1>3. want = None /\ faults \in Nat /\ Published \in OnDisk
  BY PublishedVersion, BoundsAreNatural DEF IInv, Basic, TypeOK, Phase
<1>4. ASSUME PartlyRemoved, want' = want, faults' = faults + 1 PROVE D!Next
  <2>1. Basic'
    BY NextKeepsBasic DEF IInv, Basic
  <2>2. Published' \in OnDisk
    BY <2>1, BoundsAreNatural DEF Basic, TypeOK, Published, Empty, OnDisk, Version
  <2>3. \A n \in Name : Published'[n] \in {Published[n], None}
    BY <1>4, BoundsAreNatural
    DEF PartlyRemoved, Remnant, Published, Empty, IInv, TypeOK, OnDisk, Version
  <2>4. faults' # 0
    BY <1>3, <1>4
  <2>. QED
    BY <1>3, <1>4, <2>2, <2>3, <2>4 DEF D!Next, D!Remove, OnDisk, D!OnDisk
<1>5. CASE RemoveDir
  <2>1. CASE versions' = [v \in Version |-> None] /\ data' = 0 /\ faults' = faults /\ want' = want
    <3>1. Published' = Empty
      BY <2>1 DEF Published
    <3>. QED
      BY <1>3, <2>1, <3>1 DEF D!Next, D!Remove, D!OnDisk, D!Empty, Empty
  <2>2. CASE PartlyRemoved /\ faults' = faults + 1 /\ want' = want
    BY <1>4, <2>2
  <2>. QED
    BY <1>5, <2>1, <2>2 DEF RemoveDir, Fault, End
<1>6. CASE Crash
  <2>1. want' = want /\ faults' = faults + 1 /\ (UNCHANGED disk \/ PartlyRemoved)
    BY <1>6 DEF Crash, Fault, End
  <2>2. CASE UNCHANGED disk
    <3>1. Published' = Published /\ faults' # 0
      BY <1>3, <2>1, <2>2 DEF Published
    <3>. QED
      BY <2>1, <3>1 DEF D!Next, D!Disturb
  <2>. QED
    BY <1>4, <2>1, <2>2
<1>. QED
  BY <1>1, <1>2, <1>5, <1>6

\* Every step of the detailed directory is a step of the abstract one, or none.
LEMMA StepRefines == IInv /\ [Next]_vars => [D!Next]_(D!vars)
<1>. SUFFICES ASSUME IInv, [Next]_vars PROVE [D!Next]_(D!vars)
  OBVIOUS
<1>1. CASE pc = "idle"
  <2>1. UNCHANGED vars \/ \E w \in Wants : Plan(w)
    BY <1>1 DEF Next, WriteVersionedDirFile, RemoveStaleLink, MakeNewLink, AllWritten,
         MakeTmpLink, SwapDataLink, LinksAdjusted, PruneOldVersion, Pruned, RemoveDir, Crash
  <2>2. CASE UNCHANGED vars
    BY <2>2 DEF vars, D!vars, Published
  <2>3. ASSUME NEW w \in Wants, Plan(w) PROVE D!Next
    <3>1. want' = w /\ Published' = Published /\ faults' = faults
      BY <2>3 DEF Plan, Published
    <3>. QED
      BY <3>1 DEF D!Next, D!Choose
  <2>. QED
    BY <2>1, <2>2, <2>3
<1>2. CASE pc # "idle"
  BY <1>2, UpdateRefines, RemovalRefines
<1>. QED
  BY <1>1, <1>2

\* The steps of WriteFsContainerConfigDir and DeleteFsContainerConfigDir, failing
\* and dying anywhere, implement a directory whose files are replaced in one step.
THEOREM Refinement == Spec => ImplementsDirectory
<1>1. Init => D!Init
  BY DEF Init, D!Init, D!Empty, Empty, Published
<1>. QED
  BY <1>1, StepRefines, Invariance, PTL DEF Spec, ImplementsDirectory, D!Spec
=============================================================================
