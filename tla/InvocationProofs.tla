-------------------------- MODULE InvocationProofs --------------------------
(***************************************************************************)
(* Theorems about Invocation, for any keys, inputs, options and secret     *)
(* stores: keys and decrypted secrets, the locks and options of the specs  *)
(* on their way into the unit files and back, and what is running.         *)
(***************************************************************************)
EXTENDS Invocation, UnitsProofs

(***************************************************************************)
(* Keys.                                                                   *)
(***************************************************************************)
\* No step drops a key, and only secrets that can be decrypted count as decrypted.
LEMMA KeysOnlyGrow ==
    ASSUME [Next]_vars
    PROVE  /\ keyFile \subseteq keyFile'
           /\ \A p \in decrypted' \ decrypted : Decryptable(p)
<1>1. ASSUME NEW d \in BOOLEAN, NEW i \in BOOLEAN, NEW s, Invoke(d, i, s)
      PROVE  keyFile' = keyFile /\ decrypted' = decrypted
  BY <1>1 DEF Invoke
<1>2. CASE newDecryptor
  BY <1>2 DEF newDecryptor, AppendToKeyFile
<1>3. CASE NoDecryptor \/ LoadSpecs \/ Refuse \/ Crash
  BY <1>3 DEF NoDecryptor, LoadSpecs, Refuse, Crash
<1>4. CASE DisplayPlan
  BY <1>4 DEF DisplayPlan, Plannable
<1>5. CASE Apply
  BY <1>5 DEF Apply, Plannable
<1>6. ASSUME NEW k, RotateHostKey(k)
      PROVE  keyFile' = keyFile /\ decrypted' = decrypted
  BY <1>6 DEF RotateHostKey
<1>7. CASE UpgradeSystemd
  BY <1>7 DEF UpgradeSystemd
<1>8. CASE UNCHANGED vars
  BY <1>8 DEF vars
<1> QED
  BY <1>1, <1>2, <1>3, <1>4, <1>5, <1>6, <1>7, <1>8 DEF Next

\* A secret that was decrypted once can be decrypted for good.
THEOREM KeysSurvive == Spec => []SecretsSurviveRotation
<1>1. Init => SecretsSurviveRotation
  BY DEF Init, SecretsSurviveRotation
<1>2. SecretsSurviveRotation /\ [Next]_vars => SecretsSurviveRotation'
  BY KeysOnlyGrow DEF SecretsSurviveRotation, Decryptable
<1> QED
  BY <1>1, <1>2, PTL DEF Spec

(***************************************************************************)
(* The inductive invariant.                                                *)
(***************************************************************************)
LEMMA StreamTyped ==
    ASSUME stream \in Streams \cup {Torn}
    PROVE  /\ Pieces(stream.specs) \subseteq Specs
           /\ Units(stream) \subseteq UnitSpecs /\ Desired(stream) \subseteq UnitRef
           /\ Secrets(stream) \subseteq Specs \ UnitSpecs
           /\ SecretNames(stream.specs) \subseteq SecretName
<1>1. Pieces(Torn.specs) = {}
  BY DEF Pieces, Torn
<1>2. Pieces(stream.specs) \subseteq Specs
  BY <1>1 DEF Specs
<1>3. SecretNames(Torn.specs) = {}
  BY <1>1 DEF SecretNames
<1>4. SecretNames(stream.specs) \subseteq SecretName
  BY <1>3, EverySecretHasAPlace
<1> QED
  BY <1>2, <1>4 DEF Units, UnitSpecs, Desired, UnitRef, Secrets

LEMMA SpecOfDesired ==
    ASSUME NEW s, NEW u \in Desired(s)
    PROVE  SpecOf(s, u) \in Units(s) /\ Ref(SpecOf(s, u)) = u
<1>1. PICK p \in Units(s) : Ref(p) = u
  BY DEF Desired
<1> QED
  BY <1>1 DEF SpecOf

LEMMA ValueTyped ==
    ASSUME stream \in Streams \cup {Torn}, NEW n \in SecretNames(stream.specs)
    PROVE  Value(stream, n) \in Plaintext
<1>1. PICK p \in Secrets(stream) : \E k \in DOMAIN p.values : n = FullName(p.name, k)
  BY DEF SecretNames, Secrets
<1>2. PICK k \in DOMAIN p.values : n = FullName(p.name, k)
  BY <1>1
<1>3. p.values[k] \in Plaintext
  BY StreamTyped, <1>2 DEF Plaintext
<1> QED
  BY <1>2, <1>3 DEF Value

LEMMA InitInv == Init => IInv
<1> SUFFICES ASSUME Init PROVE IInv
  OBVIOUS
<1>1. TypeOK
  BY StoresTyped DEF Init, TypeOK, Maybe
<1>2. Linked
  BY DEF Init, Linked
<1> QED
  BY <1>1, <1>2 DEF IInv

\* What an apply writes is typed.
LEMMA ApplyTyped ==
    ASSUME TypeOK, Apply
    PROVE  TypeOK'
<1> USE DEF TypeOK
<1>1. store' \in [SecretName -> Maybe(StoredSecret)]
  <2>1. ASSUME NEW n \in SecretName, n \in UpsertPodmanSecrets(stream)
        PROVE  Replaced(n) \in Maybe(StoredSecret)
    <3>1. n \in SecretNames(stream.specs)
      BY <2>1 DEF UpsertPodmanSecrets, ChangedSecrets
    <3> QED
      BY <3>1, ValueTyped DEF Replaced, StoredSecret, Maybe
  <2> QED
    BY <2>1 DEF Apply, Maybe
<1>2. applied' \in [UnitRef -> Maybe(UnitSpecs)]
  BY StreamTyped, SpecOfDesired DEF Apply, Maybe
<1>3. restarted' \subseteq Container
  <2>1. ASSUME NEW p \in Units(stream), p.type = "container"
        PROVE  Ref(p) \in Container
    BY <2>1, StreamTyped DEF Container, UnitRef, Ref
  <2> QED
    BY <2>1 DEF Apply
<1>4. decrypted' \subseteq Specs
  BY StreamTyped DEF Apply
<1> QED
  BY <1>1, <1>2, <1>3, <1>4 DEF Apply, environment

LEMMA TypeStep ==
    ASSUME TypeOK, [Next]_vars
    PROVE  TypeOK'
<1> USE DEF TypeOK, environment, host, invocation
<1>1. ASSUME NEW d \in BOOLEAN, NEW i \in BOOLEAN, NEW s \in Streams \cup ({record} \ {None}),
             Invoke(d, i, s)
      PROVE  TypeOK'
  BY <1>1 DEF Invoke
<1>2. CASE newDecryptor
  BY <1>2 DEF newDecryptor, AppendToKeyFile, Maybe
<1>3. CASE NoDecryptor
  BY <1>3 DEF NoDecryptor, Ends
<1>4. CASE LoadSpecs
  BY <1>4 DEF LoadSpecs, Ends
<1>5. CASE Refuse
  BY <1>5 DEF Refuse, Ends
<1>6. CASE DisplayPlan
  BY <1>6, StreamTyped DEF DisplayPlan, Ends
<1>7. CASE Apply
  BY <1>7, ApplyTyped
<1>8. CASE Crash
  BY <1>8 DEF Crash, Ends
<1>9. ASSUME NEW k \in Maybe(Key), RotateHostKey(k)
      PROVE  TypeOK'
  BY <1>9 DEF RotateHostKey
<1>10. CASE UpgradeSystemd
  BY <1>10 DEF UpgradeSystemd
<1>11. CASE UNCHANGED vars
  BY <1>11 DEF vars
<1> QED
  BY <1>1, <1>2, <1>3, <1>4, <1>5, <1>6, <1>7, <1>8, <1>9, <1>10, <1>11 DEF Next

LEMMA LinkedStep ==
    ASSUME IInv, [Next]_vars
    PROVE  Linked'
<1> USE DEF IInv, TypeOK
<1>1. CASE Apply
  <2>1. PICK e \in Rendering :
           /\ Plannable(stream, e)
           /\ installed' = [u \in UnitRef |->
                              CASE u \in Desired(stream) -> RenderedUnit(SpecOf(stream, u), e)
                                [] u \in Pruned(stream) -> None
                                [] OTHER -> installed[u]]
           /\ applied' = [u \in UnitRef |->
                            CASE u \in Desired(stream) -> SpecOf(stream, u)
                              [] u \in Pruned(stream) -> None
                              [] OTHER -> applied[u]]
    BY <1>1 DEF Apply
  <2>2. e \in BOOLEAN
    BY DEF Rendering
  <2>3. ASSUME NEW u \in UnitRef, installed'[u] # None, u \in Desired(stream)
        PROVE  /\ Ref(applied'[u]) = u /\ NoXSysletSection(applied'[u])
               /\ installed'[u] = RenderedUnit(applied'[u], e)
    <3>1. applied'[u] = SpecOf(stream, u) /\ installed'[u] = RenderedUnit(SpecOf(stream, u), e)
      BY <2>1, <2>3 DEF Pruned, Stale
    <3>2. NoXSysletSection(SpecOf(stream, u))
      BY <2>1, <2>3, SpecOfDesired DEF Plannable, PreRender, Units
    <3> QED
      BY <2>3, <3>1, <3>2, SpecOfDesired
  <2>4. ASSUME NEW u \in UnitRef, installed'[u] # None, u \notin Desired(stream)
        PROVE  installed'[u] = installed[u] /\ applied'[u] = applied[u]
    BY <2>1, <2>4
  <2> QED
    BY <2>2, <2>3, <2>4 DEF Linked
<1>2. CASE UNCHANGED <<installed, applied>>
  BY <1>2 DEF Linked
<1>3. Apply \/ UNCHANGED <<installed, applied>>
  BY DEF Next, Invoke, newDecryptor, NoDecryptor, LoadSpecs, Refuse, DisplayPlan, Crash, Ends,
         RotateHostKey, UpgradeSystemd, host, vars
<1> QED
  BY <1>1, <1>2, <1>3

\* Types hold, and every installed unit is the rendering of the spec it was last
\* written for, which passed validation.
THEOREM Invariance == Spec => []IInv
<1>1. IInv /\ [Next]_vars => IInv'
  BY TypeStep, LinkedStep DEF IInv
<1> QED
  BY InitInv, <1>1, PTL DEF Spec

(***************************************************************************)
(* The locks.                                                              *)
(***************************************************************************)
GoesUnlocked ==
    \A u \in UnitRef :
        installed[u] # None /\ installed'[u] = None /\ u[1] # "build"
            => applied[u].removalAllowed # "false"

LEMMA LockedStepStays ==
    ASSUME IInv, Next
    PROVE  GoesUnlocked
<1>1. CASE Apply
  <2> SUFFICES ASSUME NEW u \in UnitRef, installed[u] # None, installed'[u] = None, u[1] # "build"
               PROVE  applied[u].removalAllowed # "false"
    BY DEF GoesUnlocked
  <2>1. PICK e \in Rendering :
           /\ Plannable(stream, e)
           /\ installed' = [v \in UnitRef |->
                              CASE v \in Desired(stream) -> RenderedUnit(SpecOf(stream, v), e)
                                [] v \in Pruned(stream) -> None
                                [] OTHER -> installed[v]]
    BY <1>1 DEF Apply
  <2>2. u \notin Desired(stream)
    <3> SUFFICES ASSUME u \in Desired(stream) PROVE FALSE
      OBVIOUS
    <3>1. installed'[u] = RenderedUnit(SpecOf(stream, u), e)
      BY <2>1 DEF Pruned, Stale
    <3>2. SpecOf(stream, u) \in UnitSpecs /\ Loads(SpecOf(stream, u))
      BY <2>1, SpecOfDesired, StreamTyped DEF IInv, TypeOK, Plannable, Units
    <3>3. e \in BOOLEAN
      BY DEF IInv, TypeOK, Rendering
    <3> QED
      BY <3>1, <3>2, <3>3, NoneIsNoUnit
  <2>3. IsUnitRemovalAllowed(installed[u])
    BY <2>1, <2>2 DEF Pruned
  <2>4. PICK f \in BOOLEAN : installed[u] = RenderedUnit(applied[u], f)
    BY DEF IInv, Linked
  <2>5. Ref(applied[u]) = u /\ NoXSysletSection(applied[u])
    BY DEF IInv, Linked
  <2>6. applied[u].type # "build"
    BY <2>5 DEF Ref
  <2> QED
    BY <2>3, <2>4, <2>5, <2>6, LockIsReadBack
<1>2. CASE UNCHANGED installed
  BY <1>2 DEF GoesUnlocked
<1>3. Apply \/ UNCHANGED installed
  BY DEF Next, Invoke, newDecryptor, NoDecryptor, LoadSpecs, Refuse, DisplayPlan, Crash, Ends,
         RotateHostKey, UpgradeSystemd, host
<1> QED
  BY <1>1, <1>2, <1>3

\* The lock of a spec holds until a spec without it has been applied, whatever
\* options and markers the specs come with.
THEOREM LocksHold == Spec => LockedSpecsStay
<1>1. IInv /\ [Next]_vars => [GoesUnlocked]_vars
  BY LockedStepStays
<1> QED
  BY Invariance, <1>1, PTL DEF Spec, LockedSpecsStay, GoesUnlocked

(***************************************************************************)
(* Idempotence.                                                            *)
(***************************************************************************)
Fixpoint(s) ==
    /\ Decodes(s)
    /\ UpsertPodmanSecrets(s) \cup DeletePodmanSecrets(s) = {}
    /\ \E e \in BOOLEAN : \A p \in Units(s) : ~IsChanged(p, e)
    /\ Pruned(s) = {}

\* What is planned has been decoded, and is the record if it came over stdin.
Decoded == pc = "plan" => Decodes(stream) /\ (stdin /\ ~diff => record = stream)
Settled ==
    /\ pc # "idle" => ~ok
    /\ ok => Fixpoint(stream) /\ (stdin => record = stream)

LEMMA SpecOfItself ==
    ASSUME NEW s, NoDuplicateNames(s.specs), NEW p \in Units(s)
    PROVE  SpecOf(s, Ref(p)) = p
<1>1. ASSUME NEW q \in Units(s), Ref(q) = Ref(p)
      PROVE  q = p
  BY <1>1 DEF Units, Pieces, NoDuplicateNames
<1> QED
  BY <1>1 DEF SpecOf

LEMMA ApplySettles ==
    ASSUME TypeOK, Decoded, Apply
    PROVE  Fixpoint(stream)'
<1>1. PICK e \in Rendering :
           /\ Plannable(stream, e)
           /\ store' = [n \in SecretName |->
                          CASE n \in UpsertPodmanSecrets(stream) -> Replaced(n)
                            [] n \in DeletePodmanSecrets(stream) -> None
                            [] OTHER -> store[n]]
           /\ installed' = [u \in UnitRef |->
                              CASE u \in Desired(stream) -> RenderedUnit(SpecOf(stream, u), e)
                                [] u \in Pruned(stream) -> None
                                [] OTHER -> installed[u]]
  BY DEF Apply
<1>2. stream' = stream /\ Decodes(stream)
  BY DEF Apply, Decoded
<1>3. e \in BOOLEAN
  BY DEF TypeOK, Rendering
<1>4. ASSUME NEW n \in SecretNames(stream.specs)
      PROVE  store'[n] # None /\ store'[n].value = Value(stream, n) /\ ~store'[n].legacy
  <2>1. n \in SecretName
    BY StreamTyped DEF TypeOK
  <2>2. CASE n \in UpsertPodmanSecrets(stream)
    <3>1. n \notin DeletePodmanSecrets(stream)
      BY DEF DeletePodmanSecrets
    <3>2. store'[n] = Replaced(n)
      BY <1>1, <2>1, <2>2, <3>1
    <3>3. Replaced(n) \in StoredSecret
      BY ValueTyped DEF TypeOK, Replaced, StoredSecret
    <3>4. Replaced(n).value = Value(stream, n)
      BY DEF Replaced
    <3>5. Replaced(n).legacy = FALSE
      BY ZenonT(20) DEF Replaced
    <3> QED
      BY <3>2, <3>3, <3>4, <3>5, NoneIsNoSecret, Zenon
  <2>3. CASE n \notin UpsertPodmanSecrets(stream)
    <3>1. store'[n] = store[n]
      BY <1>1, <2>1, <2>3 DEF DeletePodmanSecrets
    <3> QED
      BY <3>1, <2>3 DEF UpsertPodmanSecrets, ChangedSecrets
  <2> QED
    BY <2>2, <2>3
<1>5. UpsertPodmanSecrets(stream)' = {}
  BY <1>2, <1>4 DEF UpsertPodmanSecrets, ChangedSecrets, Value
<1>6. DeletePodmanSecrets(stream)' = {}
  <2>1. ASSUME NEW n \in SecretName \ SecretNames(stream.specs)
        PROVE  store'[n] = None
    <3>1. n \notin UpsertPodmanSecrets(stream)
      BY DEF UpsertPodmanSecrets, ChangedSecrets
    <3> QED
      BY <1>1, <3>1 DEF DeletePodmanSecrets
  <2> QED
    BY <1>2, <2>1 DEF DeletePodmanSecrets
<1>7. ASSUME NEW p \in Units(stream)
      PROVE  installed'[Ref(p)] = RenderedUnit(p, e)
  <2>1. Ref(p) \in Desired(stream) /\ Ref(p) \in UnitRef
    BY StreamTyped DEF TypeOK, Desired
  <2>2. SpecOf(stream, Ref(p)) = p
    BY <1>1, SpecOfItself DEF Plannable, PreRender
  <2> QED
    BY <1>1, <2>1, <2>2 DEF Pruned, Stale
<1>8. Pruned(stream)' = {}
  <2>1. ASSUME NEW u \in UnitRef, u \notin Desired(stream), installed'[u] # None
        PROVE  u[1] # "build" /\ ~IsUnitRemovalAllowed(installed'[u])
    <3>1. u \notin Pruned(stream) /\ installed'[u] = installed[u]
      BY <1>1, <2>1
    <3> QED
      BY <2>1, <3>1 DEF Pruned, Stale
  <2> QED
    BY <1>2, <2>1 DEF Pruned, Stale, Desired, Units
<1> QED
  BY <1>2, <1>3, <1>5, <1>6, <1>7, <1>8 DEF Fixpoint, IsChanged, Units, Decodes

LEMMA DecodedStep ==
    ASSUME TypeOK, Decoded, Next
    PROVE  Decoded'
<1>1. CASE LoadSpecs
  BY <1>1 DEF LoadSpecs, Ends, Decoded, Decodes
<1>2. CASE UNCHANGED <<pc, diff, stdin, stream, record>>
  BY <1>2 DEF Decoded, Decodes
<1>3. CASE pc' # "plan"
  BY <1>3 DEF Decoded
<1>4. LoadSpecs \/ UNCHANGED <<pc, diff, stdin, stream, record>> \/ pc' # "plan"
  BY DEF Next, Invoke, newDecryptor, NoDecryptor, Refuse, DisplayPlan, Apply, Crash, Ends,
         RotateHostKey, UpgradeSystemd, invocation
<1> QED
  BY <1>1, <1>2, <1>3, <1>4

LEMMA SettledStep ==
    ASSUME TypeOK, Decoded, Settled, Next
    PROVE  Settled'
<1>1. CASE Apply
  <2>1. Fixpoint(stream)'
    BY <1>1, ApplySettles
  <2>2. pc' = "idle" /\ (stdin' => record' = stream')
    BY <1>1 DEF Apply, Decoded
  <2> QED
    BY <2>1, <2>2 DEF Settled
<1>2. CASE ~ok'
  BY <1>2 DEF Settled
<1>3. CASE UNCHANGED <<pc, ok, stream, stdin, record, store, installed>>
  <2>1. Fixpoint(stream)' = Fixpoint(stream)
    BY <1>3 DEF Fixpoint, Decodes, UpsertPodmanSecrets, ChangedSecrets, Value, DeletePodmanSecrets,
                Units, IsChanged, Pruned, Stale, Desired
  <2> QED
    BY <1>3, <2>1 DEF Settled
<1>4. Apply \/ ~ok' \/ UNCHANGED <<pc, ok, stream, stdin, record, store, installed>>
  BY DEF Settled, Next, Invoke, newDecryptor, NoDecryptor, LoadSpecs, Refuse, DisplayPlan, Crash,
         Ends, RotateHostKey, UpgradeSystemd, environment, host, invocation
<1> QED
  BY <1>1, <1>2, <1>3, <1>4

\* After an apply that exits 0, applying again plans nothing, for any specs that
\* pass validation and whatever was on the host before.
THEOREM ApplyIsIdempotent == Spec => []SecondApplyPlansNothing
<1>1. Init => Decoded /\ Settled
  BY DEF Init, Decoded, Settled
<1>2. Decoded /\ Settled /\ UNCHANGED vars => (Decoded /\ Settled)'
  BY DEF vars, Decoded, Settled, Fixpoint, Decodes, UpsertPodmanSecrets, ChangedSecrets, Value,
         DeletePodmanSecrets, Units, IsChanged, Pruned, Stale, Desired
<1>3. IInv /\ Decoded /\ Settled /\ [Next]_vars => (Decoded /\ Settled)'
  BY <1>2, DecodedStep, SettledStep DEF IInv
<1>4. Settled => SecondApplyPlansNothing
  BY DEF Settled, Fixpoint, SecondApplyPlansNothing
<1> QED
  BY Invariance, <1>1, <1>3, <1>4, PTL DEF Spec

(***************************************************************************)
(* The specs behind the installed units.                                   *)
(***************************************************************************)
Written ==
    \A u \in UnitRef :
        /\ installed[u] = None => applied[u] = None
        /\ installed[u] # None =>
              /\ applied[u] \in UnitSpecs /\ Loads(applied[u])
              /\ ContainerOneshotRequiresOneshotState(applied[u])

\* A spec that loads gives lists of values whose text has an order.
LEMMA WhatLoadsIsListed ==
    ASSUME NEW p \in UnitSpecs, Loads(p)
    PROVE  /\ Lists(p)
           /\ \A e \in BOOLEAN : \A k \in Option : Len(Merged(p, e)[k]) > 1 => Listed(Merged(p, e)[k])
BY OptionsAreLists, RepeatedValuesOrdered DEF Lists, Listed

\* What an apply does to one unit.
UnitApplied(u, e) ==
    \/ /\ u \in Desired(stream)
       /\ applied'[u] = SpecOf(stream, u) /\ applied'[u] \in Units(stream) /\ Ref(applied'[u]) = u
       /\ applied'[u] \in UnitSpecs /\ Loads(applied'[u]) /\ NoXSysletSection(applied'[u])
       /\ ContainerOneshotRequiresOneshotState(applied'[u])
       /\ ~VolumeChangeRefused(applied'[u], e)
       /\ installed'[u] = RenderedUnit(applied'[u], e) /\ installed'[u] # None
    \/ u \notin Desired(stream) /\ u \in Pruned(stream) /\ installed'[u] = None /\ applied'[u] = None
    \/ /\ u \notin Desired(stream) /\ u \notin Pruned(stream)
       /\ installed'[u] = installed[u] /\ applied'[u] = applied[u]

LEMMA ApplyByUnit ==
    ASSUME IInv, Apply
    PROVE  \E e \in BOOLEAN :
              /\ Plannable(stream, e)
              /\ \A u \in UnitRef : UnitApplied(u, e)
              /\ store' = [n \in SecretName |->
                             CASE n \in UpsertPodmanSecrets(stream) -> Replaced(n)
                               [] n \in DeletePodmanSecrets(stream) -> None
                               [] OTHER -> store[n]]
              /\ running' = [c \in Container |-> RunningAfter(c, e)]
              /\ restarted' = {Ref(p) : p \in {q \in Units(stream) :
                                  /\ q.type = "container" /\ ParseDesiredState(q) = "running"
                                  /\ NeedsRestart(stream, q, e)}}
<1>1. PICK e \in Rendering :
         /\ Plannable(stream, e)
         /\ store' = [n \in SecretName |->
                        CASE n \in UpsertPodmanSecrets(stream) -> Replaced(n)
                          [] n \in DeletePodmanSecrets(stream) -> None
                          [] OTHER -> store[n]]
         /\ installed' = [u \in UnitRef |->
                            CASE u \in Desired(stream) -> RenderedUnit(SpecOf(stream, u), e)
                              [] u \in Pruned(stream) -> None
                              [] OTHER -> installed[u]]
         /\ applied' = [u \in UnitRef |->
                          CASE u \in Desired(stream) -> SpecOf(stream, u)
                            [] u \in Pruned(stream) -> None
                            [] OTHER -> applied[u]]
         /\ running' = [c \in Container |-> RunningAfter(c, e)]
         /\ restarted' = {Ref(p) : p \in {q \in Units(stream) :
                             /\ q.type = "container" /\ ParseDesiredState(q) = "running"
                             /\ NeedsRestart(stream, q, e)}}
  BY DEF Apply
<1>2. e \in BOOLEAN
  BY DEF IInv, TypeOK, Rendering
<1>3. ASSUME NEW u \in UnitRef
      PROVE  UnitApplied(u, e)
  <2>1. CASE u \in Desired(stream)
    <3>1. u \notin Pruned(stream)
      BY <2>1 DEF Pruned, Stale
    <3>2. applied'[u] = SpecOf(stream, u) /\ installed'[u] = RenderedUnit(SpecOf(stream, u), e)
      BY <1>1, <2>1, <3>1
    <3>3. SpecOf(stream, u) \in Units(stream) /\ Ref(SpecOf(stream, u)) = u
      BY <2>1, SpecOfDesired
    <3>4. SpecOf(stream, u) \in UnitSpecs
      BY <3>3, StreamTyped DEF IInv, TypeOK
    <3>5. /\ Loads(SpecOf(stream, u)) /\ NoXSysletSection(SpecOf(stream, u))
          /\ ContainerOneshotRequiresOneshotState(SpecOf(stream, u))
          /\ ~VolumeChangeRefused(SpecOf(stream, u), e)
      BY <1>1, <3>3 DEF Plannable, PreRender, Units
    <3>6. RenderedUnit(SpecOf(stream, u), e) # None
      BY <1>2, <3>4, <3>5, NoneIsNoUnit
    <3> QED
      BY <2>1, <3>2, <3>3, <3>4, <3>5, <3>6 DEF UnitApplied
  <2>2. CASE u \notin Desired(stream)
    BY <1>1, <2>2 DEF UnitApplied
  <2> QED
    BY <2>1, <2>2
<1> QED
  BY <1>1, <1>2, <1>3

\* Only an apply changes units, secrets and what runs.
LEMMA HostStays ==
    ASSUME Next, ~Apply
    PROVE  UNCHANGED <<store, installed, running, applied>>
BY DEF Next, Invoke, newDecryptor, NoDecryptor, LoadSpecs, Refuse, DisplayPlan, Crash, Ends,
       RotateHostKey, UpgradeSystemd, host

\* What is installed was written for a spec that loads.
LEMMA WrittenStep ==
    ASSUME IInv, Written, [Next]_vars
    PROVE  Written'
<1>1. CASE Apply
  <2>1. PICK e \in BOOLEAN : \A u \in UnitRef : UnitApplied(u, e)
    BY <1>1, ApplyByUnit
  <2> QED
    BY <2>1 DEF Written, UnitApplied
<1>2. CASE UNCHANGED <<installed, applied>>
  BY <1>2 DEF Written
<1> QED
  BY <1>1, <1>2, HostStays DEF vars

\* Nothing is installed at first.
LEMMA InitWritten == Init => Written
BY DEF Init, Written

(***************************************************************************)
(* The options of a volume.                                                *)
(***************************************************************************)
VolumeChange ==
    \A u \in UnitRef :
        /\ u[1] = "volume" /\ installed[u] # None /\ installed'[u] # None
        /\ \E k \in Option \ (RestartNeutral \cup Overridden(applied'[u])) :
              Pieces(Options(applied[u])[k]) # Pieces(Options(applied'[u])[k])
        => applied[u].removalAllowed # "false" /\ applied[u].reclaimPolicy # "Retain"

\* Other options of two specs of a volume give units that differ, and not only in what
\* is restart-neutral.
LEMMA VolumeReadBack ==
    ASSUME NEW p \in UnitSpecs, NEW q \in UnitSpecs, Loads(p), Loads(q), Ref(p) = Ref(q),
           p.type = "volume", NoXSysletSection(p), NoXSysletSection(q),
           NEW e \in BOOLEAN, NEW f \in BOOLEAN,
           NEW k \in Option \ (RestartNeutral \cup Overridden(q)),
           Pieces(Options(p)[k]) # Pieces(Options(q)[k])
    PROVE  StripRestartNeutralOptions(RenderedUnit(p, e)) # StripRestartNeutralOptions(RenderedUnit(q, f))
<1>1. p.type = q.type /\ p.name = q.name
  BY DEF Ref
<1>2. k[1] # "X-Syslet"
  BY DEF NoXSysletSection, Options
<1>3. Override(q, k) = NoValue
  BY DEF Overridden
<1>4. Override(p, k) = NoValue
  <2>1. k # RemovalAllowed /\ k # ReclaimPolicy
    BY <1>2 DEF RemovalAllowed, ReclaimPolicy
  <2> QED
    BY <1>1, <1>3, <2>1 DEF Override
<1>5. Extra(p, k) = <<>> /\ Extra(q, k) = <<>>
  BY <1>1 DEF Extra
<1>6. /\ Pieces(RenderedUnit(p, e)[k]) = Pieces(Options(p)[k])
      /\ Pieces(RenderedUnit(q, f)[k]) = Pieces(Options(q)[k])
  <2>1. Pieces(<<>>) = {}
    BY DEF Pieces
  <2>2. k \in Option \ RestartNeutral
    OBVIOUS
  <2>3. Pieces(RenderedUnit(p, e)[k]) = Pieces(Options(p)[k]) \cup Pieces(Extra(p, k))
    BY <1>4, <2>2, WhatLoadsIsListed, RenderedAsGiven
  <2>4. Pieces(RenderedUnit(q, f)[k]) = Pieces(Options(q)[k]) \cup Pieces(Extra(q, k))
    BY <1>3, <2>2, WhatLoadsIsListed, RenderedAsGiven
  <2> QED
    BY <1>5, <2>1, <2>3, <2>4
<1>7. RenderedUnit(p, e)[k] # RenderedUnit(q, f)[k]
  BY <1>6
<1> QED
  BY <1>2, <1>7 DEF StripRestartNeutralOptions

\* A volume's options change only as the last spec for it allows.
LEMMA VolumeStep ==
    ASSUME IInv, Written, Next
    PROVE  VolumeChange
<1>1. CASE Apply
  <2> SUFFICES ASSUME NEW u \in UnitRef, u[1] = "volume", installed[u] # None, installed'[u] # None,
                      NEW k \in Option \ (RestartNeutral \cup Overridden(applied'[u])),
                      Pieces(Options(applied[u])[k]) # Pieces(Options(applied'[u])[k])
               PROVE  applied[u].removalAllowed # "false" /\ applied[u].reclaimPolicy # "Retain"
    BY DEF VolumeChange
  <2>1. PICK e \in BOOLEAN : \A v \in UnitRef : UnitApplied(v, e)
    BY <1>1, ApplyByUnit
  <2> DEFINE p == applied[u]
             q == applied'[u]
  <2>2. /\ Ref(q) = u /\ q \in UnitSpecs /\ Loads(q) /\ NoXSysletSection(q)
        /\ ~VolumeChangeRefused(q, e)
    BY <2>1 DEF UnitApplied
  <2>3. p \in UnitSpecs /\ Loads(p) /\ Ref(p) = u /\ NoXSysletSection(p)
    BY DEF Written, IInv, Linked
  <2>4. PICK f \in BOOLEAN : installed[u] = RenderedUnit(p, f)
    BY DEF IInv, Linked
  <2>5. p.type = "volume" /\ q.type = "volume"
    BY <2>2, <2>3 DEF Ref
  <2>6. StripRestartNeutralOptions(installed[u]) # StripRestartNeutralOptions(RenderedUnit(q, e))
    BY <2>2, <2>3, <2>4, <2>5, VolumeReadBack
  <2>7. IsUnitRemovalAllowed(installed[u]) /\ IsReclaimPolicyDelete(installed[u])
    BY <2>2, <2>5, <2>6 DEF VolumeChangeRefused, MeaningfullyChanged
  <2> QED
    BY <2>3, <2>4, <2>5, <2>7, LockIsReadBack, RetainIsReadBack
<1>2. CASE UNCHANGED applied
  BY <1>2 DEF VolumeChange
<1> QED
  BY <1>1, <1>2, HostStays

\* The options of a volume change only with the permission of the spec that was last
\* applied for it.
THEOREM VolumesHold == Spec => VolumeChangesNeedPermit
<1>1. IInv /\ Written /\ [Next]_vars => [VolumeChange]_vars
  BY VolumeStep
<1>2. IInv /\ Written /\ [Next]_vars => Written'
  BY WrittenStep
<1> QED
  BY Invariance, InitWritten, <1>1, <1>2, PTL DEF Spec, VolumeChangesNeedPermit, VolumeChange

(***************************************************************************)
(* What is running.                                                        *)
(***************************************************************************)
Faithful(c) ==
    /\ References(applied[c]) \subseteq SecretName
    /\ ParseDesiredState(applied[c]) = "stopped" => running[c] = None
    /\ ParseDesiredState(applied[c]) = "running" /\ running[c] # None =>
          /\ running[c].content = StripRestartNeutralOptions(installed[c])
          /\ DOMAIN running[c].secrets = References(applied[c])
          /\ \A n \in References(applied[c]) :
                store[n] # None => running[c].secrets[n] = store[n].value
RunsWhatIsInstalled == \A c \in Container : installed[c] # None => Faithful(c)

\* The secrets of a container are read back from its unit.
LEMMA SecretsReadBack ==
    ASSUME NEW p \in UnitSpecs, Loads(p), p.type = "container", NEW e \in BOOLEAN
    PROVE  References(p) = {v[1] : v \in Pieces(RenderedUnit(p, e)[ContainerSecret])}
<1> DEFINE k == ContainerSecret
<1>1. k \in Option \ RestartNeutral
  BY DEF Option, RestartNeutral, ContainerSecret, Description, StartLimitIntervalSec,
         StartLimitBurst, RestartSec, RestartSteps, RestartMaxDelaySec
<1>2. Override(p, k) = NoValue
  BY DEF Override, NameOption, StateOverride, ContainerSecret, ContainerName, RemovalAllowed,
         ReclaimPolicy, Restart, WantedBy, ServiceType
<1>3. Extra(p, k) = <<>>
  BY DEF Extra, ContainerSecret, ContainerVolume
<1>4. Pieces(<<>>) = {}
  BY DEF Pieces
<1>5. Pieces(RenderedUnit(p, e)[k]) = Pieces(Options(p)[k]) \cup Pieces(Extra(p, k))
  BY <1>1, <1>2, WhatLoadsIsListed, RenderedAsGiven
<1> QED
  BY <1>3, <1>4, <1>5 DEF References

\* A container is restarted when its spec no longer says oneshot.
LEMMA OneshotReadBack ==
    ASSUME NEW p \in UnitSpecs, Loads(p), p.type = "container", ParseDesiredState(p) = "oneshot",
           NEW q \in UnitSpecs, Loads(q), q.type = "container", ParseDesiredState(q) = "running",
           ContainerOneshotRequiresOneshotState(q), NEW e \in BOOLEAN, NEW f \in BOOLEAN
    PROVE  StripRestartNeutralOptions(RenderedUnit(p, e)) # StripRestartNeutralOptions(RenderedUnit(q, f))
<1> DEFINE k == ServiceType
<1>1. k \in Option \ RestartNeutral /\ k[1] # "X-Syslet"
  BY DEF Option, RestartNeutral, ServiceType, Description, StartLimitIntervalSec,
         StartLimitBurst, RestartSec, RestartSteps, RestartMaxDelaySec
<1>2. k # ContainerVolume /\ k # ContainerName /\ k # RemovalAllowed /\ k # ReclaimPolicy
      /\ k # Restart /\ k # WantedBy
  BY DEF ServiceType, ContainerVolume, ContainerName, RemovalAllowed, ReclaimPolicy, Restart, WantedBy
<1>3. Override(p, k) = <<"oneshot">> /\ Override(q, k) = NoValue
  BY <1>2 DEF Override, NameOption, StateOverride
<1>4. <<"oneshot">> \notin Pieces(RenderedUnit(q, f)[k])
  <2>1. Pieces(RenderedUnit(q, f)[k]) = Pieces(Options(q)[k]) \cup Pieces(Extra(q, k))
    BY <1>1, <1>3, WhatLoadsIsListed, RenderedAsGiven
  <2>2. Extra(q, k) = <<>> /\ Pieces(<<>>) = {}
    BY <1>2 DEF Extra, Pieces
  <2>3. <<"oneshot">> \notin Pieces(Options(q)[k])
    BY DEF ContainerOneshotRequiresOneshotState, Oneshot
  <2> QED
    BY <2>1, <2>2, <2>3
<1>5. <<"oneshot">> \in Pieces(RenderedUnit(p, e)[k])
  <2>1. Lists(p) /\ (Len(Merged(p, e)[k]) > 1 => Listed(Merged(p, e)[k]))
    BY <1>1, WhatLoadsIsListed
  <2>2. Orderable(Merged(p, e)[k])
    BY <1>1, <2>1, MergedIsList DEF Orderable
  <2>3. Merged(p, e)[k] = forceUnitOption(Given(p, k), <<"oneshot">>)
    BY <1>1, <1>3, MergedPlain
  <2>4. Given(p, k) \in Seq(Pieces(Given(p, k)))
    BY <1>1, <2>1, GivenPieces
  <2>5. <<"oneshot">> \in Pieces(forceUnitOption(Given(p, k), <<"oneshot">>))
    BY <2>4, ForcedIsThere DEF NoValue
  <2> QED
    BY <1>1, <2>2, <2>3, <2>5, SortedKeepsValues DEF RenderedUnit
<1>6. RenderedUnit(p, e)[k] # RenderedUnit(q, f)[k]
  BY <1>4, <1>5
<1> QED
  BY <1>1, <1>6 DEF StripRestartNeutralOptions

\* An apply leaves the secrets of its input in podman's store.
LEMMA SecretsStored ==
    ASSUME IInv, Apply, NEW n \in SecretNames(stream.specs)
    PROVE  /\ n \in SecretName
           /\ store'[n].value = Value(stream, n)
           /\ n \notin ChangedSecrets(stream) => store[n].value = Value(stream, n)
<1>1. n \in SecretName
  BY StreamTyped DEF IInv, TypeOK
<1>2. store'[n] = IF n \in UpsertPodmanSecrets(stream) THEN Replaced(n) ELSE store[n]
  BY <1>1, ApplyByUnit DEF DeletePodmanSecrets
<1>3. Replaced(n).value = Value(stream, n)
  BY DEF Replaced
<1>4. n \notin ChangedSecrets(stream) => store[n].value = Value(stream, n)
  BY DEF ChangedSecrets
<1> QED
  BY <1>1, <1>2, <1>3, <1>4 DEF UpsertPodmanSecrets

\* What an apply leaves running was started with what is installed and stored.
LEMMA RunsAfterApply ==
    ASSUME LockedComesWithItsSecrets, IInv, Written, RunsWhatIsInstalled, Apply,
           NEW c \in Container, installed'[c] # None
    PROVE  Faithful(c)'
<1>1. PICK e \in BOOLEAN :
         /\ Plannable(stream, e)
         /\ UnitApplied(c, e)
         /\ store' = [n \in SecretName |->
                        CASE n \in UpsertPodmanSecrets(stream) -> Replaced(n)
                          [] n \in DeletePodmanSecrets(stream) -> None
                          [] OTHER -> store[n]]
         /\ running'[c] = RunningAfter(c, e)
  BY ApplyByUnit DEF Container
<1>2. c \in UnitRef /\ c[1] = "container"
  BY DEF Container
<1> DEFINE p == applied[c]
           q == applied'[c]
<1>3. CASE c \in Desired(stream)
  <2>1. /\ q = SpecOf(stream, c) /\ q \in Units(stream) /\ Ref(q) = c
        /\ q \in UnitSpecs /\ Loads(q) /\ ContainerOneshotRequiresOneshotState(q)
        /\ installed'[c] = RenderedUnit(q, e)
    BY <1>1, <1>3 DEF UnitApplied
  <2>2. q.type = "container"
    BY <1>2, <2>1 DEF Ref
  <2>3. References(q) \subseteq SecretNames(stream.specs)
    BY <1>1, <2>1, <2>2 DEF Plannable, PreRender, SecretReferences, References, Units
  <2>4. References(q) \subseteq SecretName
    BY <2>3, SecretsStored
  <2>5. running'[c] = CASE ParseDesiredState(q) = "running"
                             /\ (running[c] = None \/ NeedsRestart(stream, q, e))
                                -> Started(q, installed'[c])
                        [] ParseDesiredState(q) = "stopped" -> None
                        [] OTHER -> running[c]
    BY <1>1, <1>3, <2>1 DEF RunningAfter
  <2>6. ParseDesiredState(q) = "stopped" => running'[c] = None
    BY <2>5
  <2>7. ASSUME ParseDesiredState(q) = "running", running'[c] # None
        PROVE  /\ running'[c].content = StripRestartNeutralOptions(installed'[c])
               /\ DOMAIN running'[c].secrets = References(q)
               /\ \A n \in References(q) : running'[c].secrets[n] = store'[n].value
    <3>1. CASE running[c] = None \/ NeedsRestart(stream, q, e)
      <4>1. running'[c] = Started(q, installed'[c])
        BY <2>5, <2>7, <3>1
      <4> QED
        BY <4>1 DEF Started
    <3>2. CASE running[c] # None /\ ~NeedsRestart(stream, q, e)
      <4>1. running'[c] = running[c]
        BY <2>5, <2>7, <3>2
      <4>2. /\ installed[c] # None
            /\ StripRestartNeutralOptions(installed[c]) = StripRestartNeutralOptions(RenderedUnit(q, e))
            /\ References(q) \cap ChangedSecrets(stream) = {}
        BY <2>1, <3>2 DEF NeedsRestart, MeaningfullyChanged
      <4>3. Faithful(c) /\ p \in UnitSpecs /\ Loads(p) /\ Ref(p) = c
        BY <1>2, <4>2 DEF RunsWhatIsInstalled, Written, IInv, Linked
      <4>4. PICK f \in BOOLEAN : installed[c] = RenderedUnit(p, f)
        BY <1>2, <4>2 DEF IInv, Linked
      <4>5. p.type = "container"
        BY <1>2, <4>3 DEF Ref
      <4>6. ParseDesiredState(p) \in {"running", "stopped", "oneshot"}
        BY <4>3, <4>5 DEF Loads, ParseDesiredState
      <4>7. ParseDesiredState(p) # "stopped"
        BY <3>2, <4>3 DEF Faithful
      <4>8. ParseDesiredState(p) # "oneshot"
        BY <2>1, <2>2, <2>7, <4>2, <4>3, <4>4, <4>5, OneshotReadBack
      <4>9. References(p) = References(q)
        <5>1. RenderedUnit(p, f)[ContainerSecret] = RenderedUnit(q, e)[ContainerSecret]
          <6>1. ContainerSecret \in Option /\ ContainerSecret \notin RestartNeutral
                /\ ContainerSecret[1] # "X-Syslet"
            BY DEF Option, RestartNeutral, ContainerSecret, Description, StartLimitIntervalSec,
                   StartLimitBurst, RestartSec, RestartSteps, RestartMaxDelaySec
          <6>2. ASSUME NEW content
                PROVE  StripRestartNeutralOptions(content)[ContainerSecret] = content[ContainerSecret]
            BY <6>1 DEF StripRestartNeutralOptions
          <6> QED
            BY <4>2, <4>4, <6>2
        <5> QED
          BY <2>1, <2>2, <4>3, <4>5, <5>1, SecretsReadBack
      <4>10. /\ running[c].content = StripRestartNeutralOptions(installed[c])
             /\ DOMAIN running[c].secrets = References(p)
             /\ \A n \in References(p) : store[n] # None => running[c].secrets[n] = store[n].value
        BY <3>2, <4>3, <4>6, <4>7, <4>8 DEF Faithful
      <4>11. \A n \in References(q) : store[n] # None /\ store'[n].value = store[n].value
        BY <2>3, <4>2, SecretsStored DEF ChangedSecrets
      <4> QED
        BY <2>1, <4>1, <4>2, <4>9, <4>10, <4>11
    <3> QED
      BY <3>1, <3>2
  <2> QED
    BY <2>4, <2>6, <2>7 DEF Faithful
<1>4. CASE c \notin Desired(stream)
  <2>1. /\ c \notin Pruned(stream)
        /\ installed'[c] = installed[c] /\ q = p
    BY <1>1, <1>4 DEF UnitApplied
  <2>2. running'[c] = running[c]
    BY <1>1, <1>4, <2>1 DEF RunningAfter
  <2>3. Faithful(c) /\ p \in UnitSpecs /\ Ref(p) = c /\ NoXSysletSection(p)
    BY <1>2, <2>1 DEF RunsWhatIsInstalled, Written, IInv, Linked
  <2>4. p.type = "container"
    BY <1>2, <2>3 DEF Ref
  <2>5. p.removalAllowed = "false"
    <3>1. ~IsUnitRemovalAllowed(installed[c])
      BY <1>2, <1>4, <2>1 DEF Pruned, Stale
    <3>2. PICK f \in BOOLEAN : installed[c] = RenderedUnit(p, f)
      BY <1>2, <2>1 DEF IInv, Linked
    <3> QED
      BY <2>3, <2>4, <3>1, <3>2, LockIsReadBack
  <2>6. References(p) \cap SecretNames(stream.specs) = {}
    <3>1. CASE stream \in Streams
      BY <1>4, <2>3, <2>4, <2>5, <3>1 DEF LockedComesWithItsSecrets
    <3>2. CASE stream = Torn
      BY <3>2 DEF SecretNames, Torn, Pieces
    <3> QED
      BY <3>1, <3>2 DEF IInv, TypeOK
  <2>7. ASSUME NEW n \in References(p), store'[n] # None
        PROVE  store'[n] = store[n]
    <3>1. n \in SecretName /\ n \notin SecretNames(stream.specs)
      BY <2>3, <2>6 DEF Faithful
    <3>2. n \notin UpsertPodmanSecrets(stream)
      BY <3>1 DEF UpsertPodmanSecrets, ChangedSecrets
    <3> QED
      BY <1>1, <2>7, <3>1, <3>2
  <2> QED
    BY <2>1, <2>2, <2>3, <2>7 DEF Faithful
<1> QED
  BY <1>3, <1>4

\* The same after any step.
LEMMA RunsStep ==
    ASSUME LockedComesWithItsSecrets, IInv, Written, RunsWhatIsInstalled, [Next]_vars
    PROVE  RunsWhatIsInstalled'
<1>1. CASE Apply
  BY <1>1, RunsAfterApply DEF RunsWhatIsInstalled
<1>2. CASE UNCHANGED <<store, installed, running, applied>>
  BY <1>2 DEF RunsWhatIsInstalled, Faithful
<1> QED
  BY <1>1, <1>2, HostStays DEF vars

\* Nothing runs at first.
LEMMA InitRuns == Init => RunsWhatIsInstalled
BY DEF Init, RunsWhatIsInstalled, Container

\* After an apply that exits 0, the units of its input are the ones last written, and
\* what is wanted is running.
Shown ==
    ok => /\ SecretReferences(stream.specs)
          /\ \A p \in Units(stream) :
                /\ applied[Ref(p)] = p /\ Loads(p)
                /\ p.type = "container" /\ ParseDesiredState(p) = "running" => running[Ref(p)] # None

\* After an apply that exits 0, what is installed and stored is that of its stream.
LEMMA ShownStep ==
    ASSUME IInv, Settled, Shown, [Next]_vars
    PROVE  Shown'
<1>1. CASE Apply
  <2>1. PICK e \in BOOLEAN :
           /\ Plannable(stream, e)
           /\ \A u \in UnitRef : UnitApplied(u, e)
           /\ running' = [c \in Container |-> RunningAfter(c, e)]
    BY <1>1, ApplyByUnit
  <2>2. stream' = stream
    BY <1>1 DEF Apply
  <2>3. SecretReferences(stream.specs)
    BY <2>1 DEF Plannable, PreRender
  <2>4. ASSUME NEW p \in Units(stream)
        PROVE  /\ applied'[Ref(p)] = p /\ Loads(p)
               /\ p.type = "container" /\ ParseDesiredState(p) = "running" => running'[Ref(p)] # None
    <3>1. Ref(p) \in Desired(stream) /\ Ref(p) \in UnitRef
      BY StreamTyped DEF Desired, IInv, TypeOK
    <3>2. SpecOf(stream, Ref(p)) = p
      BY <2>1, SpecOfItself DEF Plannable, PreRender
    <3>3. applied'[Ref(p)] = p /\ Loads(p)
      BY <2>1, <3>1, <3>2 DEF UnitApplied
    <3>4. ASSUME p.type = "container", ParseDesiredState(p) = "running"
          PROVE  running'[Ref(p)] # None
      <4>1. Ref(p) \in Container
        BY <3>1, <3>4 DEF Container, Ref
      <4>2. running'[Ref(p)] = RunningAfter(Ref(p), e)
        BY <2>1, <4>1
      <4>3. RunningAfter(Ref(p), e)
               = IF running[Ref(p)] = None \/ NeedsRestart(stream, p, e)
                 THEN Started(p, installed'[Ref(p)]) ELSE running[Ref(p)]
        BY <3>1, <3>2, <3>4 DEF RunningAfter
      <4>4. installed'[Ref(p)] = RenderedUnit(p, e)
        BY <2>1, <3>1, <3>3 DEF UnitApplied
      <4>5. [n \in References(p) |-> store'[n].value] \in [References(p) -> Plaintext]
        <5>1. References(p) \subseteq SecretNames(stream.specs)
          BY <2>3, <3>4 DEF SecretReferences, References, Units
        <5>2. \A n \in References(p) : store'[n].value \in Plaintext
          BY <1>1, <5>1, SecretsStored, ValueTyped DEF IInv, TypeOK
        <5> QED
          BY <5>2
      <4>6. p \in UnitSpecs
        BY StreamTyped DEF IInv, TypeOK
      <4>7. Started(p, installed'[Ref(p)]) # None
        BY <3>3, <4>4, <4>5, <4>6, NoneIsNotRunning DEF Started
      <4> QED
        BY <4>2, <4>3, <4>7
    <3> QED
      BY <3>3, <3>4
  <2> QED
    BY <2>2, <2>3, <2>4 DEF Shown, Units
<1>2. CASE ~ok'
  BY <1>2 DEF Shown
<1>3. CASE UNCHANGED <<ok, stream, running, applied>>
  BY <1>3 DEF Shown, Units
<1>4. Apply \/ ~ok' \/ UNCHANGED <<ok, stream, running, applied>>
  BY DEF Settled, Next, Invoke, newDecryptor, NoDecryptor, LoadSpecs, Refuse, DisplayPlan, Crash,
         Ends, RotateHostKey, UpgradeSystemd, host, invocation, vars
<1> QED
  BY <1>1, <1>2, <1>3, <1>4

\* Together: what runs is what the stream says.
LEMMA ShownIsSpec ==
    ASSUME IInv, Written, Settled, Shown, RunsWhatIsInstalled
    PROVE  RunningShowsSpec
<1> SUFFICES ASSUME ok, NEW p \in Units(stream), p.type = "container", ParseDesiredState(p) = "running"
             PROVE  /\ running[Ref(p)] # None
                    /\ \A k \in Option \ (RestartNeutral \cup Overridden(p)) :
                          Pieces(running[Ref(p)].content[k])
                            = Pieces(Options(p)[k]) \cup Pieces(Extra(p, k))
                    /\ \A n \in References(p) : running[Ref(p)].secrets[n] = Value(stream, n)
  BY DEF RunningShowsSpec
<1> DEFINE c == Ref(p)
<1>1. applied[c] = p /\ Loads(p) /\ running[c] # None /\ SecretReferences(stream.specs)
  BY DEF Shown
<1>2. c \in UnitRef /\ c \in Container /\ p \in UnitSpecs
  BY StreamTyped DEF Desired, IInv, TypeOK, Container, Ref
<1>3. PICK e \in BOOLEAN : installed[c] = RenderedUnit(p, e)
  BY DEF Settled, Fixpoint, IsChanged
<1>4. installed[c] # None
  BY <1>1, <1>2, <1>3, NoneIsNoUnit
<1>5. NoXSysletSection(p)
  BY <1>1, <1>2, <1>4 DEF IInv, Linked
<1>6. /\ running[c].content = StripRestartNeutralOptions(installed[c])
      /\ \A n \in References(p) : store[n] # None => running[c].secrets[n] = store[n].value
  BY <1>1, <1>2, <1>4 DEF RunsWhatIsInstalled, Faithful
<1>7. ASSUME NEW k \in Option \ (RestartNeutral \cup Overridden(p))
      PROVE  Pieces(running[c].content[k]) = Pieces(Options(p)[k]) \cup Pieces(Extra(p, k))
  <2>1. Override(p, k) = NoValue
    BY DEF Overridden
  <2>2. Pieces(RenderedUnit(p, e)[k]) = Pieces(Options(p)[k]) \cup Pieces(Extra(p, k))
    BY <1>1, <1>2, <2>1, WhatLoadsIsListed, RenderedAsGiven
  <2>3. CASE k[1] # "X-Syslet"
    <3>1. running[c].content[k] = RenderedUnit(p, e)[k]
      BY <1>3, <1>6, <2>3 DEF StripRestartNeutralOptions
    <3> QED
      BY <2>2, <3>1
  <2>4. CASE k[1] = "X-Syslet"
    <3>1. running[c].content[k] = <<>>
      BY <1>6, <2>4 DEF StripRestartNeutralOptions
    <3>2. k # ContainerVolume
      BY <2>4 DEF ContainerVolume
    <3>3. Options(p)[k] = <<>>
      BY <1>5, <2>4 DEF Options, NoXSysletSection
    <3>4. Extra(p, k) = <<>>
      BY <3>2 DEF Extra
    <3>5. Pieces(<<>>) = {}
      BY DEF Pieces
    <3> QED
      BY <3>1, <3>3, <3>4, <3>5
  <2> QED
    BY <2>3, <2>4
<1>8. ASSUME NEW n \in References(p)
      PROVE  running[c].secrets[n] = Value(stream, n)
  <2>1. n \in SecretNames(stream.specs)
    BY <1>1 DEF SecretReferences, References, Units
  <2>2. store[n] # None /\ store[n].value = Value(stream, n)
    BY <2>1 DEF Settled, Fixpoint, UpsertPodmanSecrets, ChangedSecrets
  <2> QED
    BY <1>6, <2>2
<1> QED
  BY <1>1, <1>7, <1>8

\* What an apply that exits 0 leaves running shows the specs of its input, whatever
\* specs and secrets were applied before, unless a secret was changed under a locked
\* container that was left without its spec.
THEOREM RunningIsShown ==
    ASSUME LockedComesWithItsSecrets
    PROVE  Spec => []RunningShowsSpec
<1>1. Init => Written /\ Decoded /\ Settled /\ Shown /\ RunsWhatIsInstalled
  BY InitWritten, InitRuns DEF Init, Decoded, Settled, Shown
<1>2. Decoded /\ Settled /\ UNCHANGED vars => (Decoded /\ Settled)'
  BY DEF vars, Decoded, Settled, Fixpoint, Decodes, UpsertPodmanSecrets, ChangedSecrets, Value,
         DeletePodmanSecrets, Units, IsChanged, Pruned, Stale, Desired
<1>3. IInv /\ Decoded /\ Settled /\ [Next]_vars => (Decoded /\ Settled)'
  BY <1>2, DecodedStep, SettledStep DEF IInv
<1>4. IInv /\ Written /\ Settled /\ Shown /\ RunsWhatIsInstalled /\ [Next]_vars
         => (Written /\ Shown /\ RunsWhatIsInstalled)'
  BY WrittenStep, ShownStep, RunsStep
<1>5. IInv /\ Written /\ Settled /\ Shown /\ RunsWhatIsInstalled => RunningShowsSpec
  BY ShownIsSpec
<1> QED
  BY Invariance, <1>1, <1>3, <1>4, <1>5, PTL DEF Spec

(***************************************************************************)
(* Restarts.                                                               *)
(***************************************************************************)
RestartHasCause ==
    \A c \in restarted' \ restarted :
        \/ applied[c] = None
        \/ SpecDiffers(applied[c], SpecOf(stream, c))
        \/ SecretsDiffer(c)

\* A restart needs a difference of the rendered units or of a stored secret, and so one
\* of the specs.
LEMMA RestartStep ==
    ASSUME SpecsArePlain, IInv, Written, RunsWhatIsInstalled, Next
    PROVE  RestartHasCause
<1>1. CASE Apply
  <2> SUFFICES ASSUME NEW c \in restarted', applied[c] # None, ~SecretsDiffer(c)
               PROVE  SpecDiffers(applied[c], SpecOf(stream, c))
    BY DEF RestartHasCause
  <2>1. PICK e \in BOOLEAN :
           /\ Plannable(stream, e)
           /\ \A u \in UnitRef : UnitApplied(u, e)
           /\ restarted' = {Ref(p) : p \in {q \in Units(stream) :
                               /\ q.type = "container" /\ ParseDesiredState(q) = "running"
                               /\ NeedsRestart(stream, q, e)}}
    BY <1>1, ApplyByUnit
  <2>2. PICK q \in Units(stream) :
           /\ Ref(q) = c /\ q.type = "container" /\ ParseDesiredState(q) = "running"
           /\ NeedsRestart(stream, q, e)
    BY <2>1
  <2>3. q \in UnitSpecs /\ c \in UnitRef /\ c \in Container
    BY <2>2, StreamTyped DEF IInv, TypeOK, Desired, Container, Ref
  <2>4. SpecOf(stream, c) = q
    BY <2>1, <2>2, SpecOfItself DEF Plannable, PreRender
  <2>5. Loads(q) /\ NoXSysletSection(q) /\ SecretReferences(stream.specs)
    BY <2>1 DEF Plannable, PreRender, Units
  <2> DEFINE p == applied[c]
  <2>6. installed[c] # None
    BY <2>3 DEF Written
  <2>7. p \in UnitSpecs /\ Loads(p) /\ Ref(p) = c /\ NoXSysletSection(p)
    BY <2>3, <2>6 DEF Written, IInv, Linked
  <2>8. PICK f \in BOOLEAN : installed[c] = RenderedUnit(p, f)
    BY <2>3, <2>6 DEF IInv, Linked
  <2>9. p.type = "container"
    BY <2>2, <2>7 DEF Ref
  <2> SUFFICES ASSUME ~SpecDiffers(p, q)
               PROVE  FALSE
    BY <2>4
  <2>10. /\ \A k \in Option \ RestartNeutral : Pieces(Options(p)[k]) = Pieces(Options(q)[k])
         /\ ParseDesiredState(p) = ParseDesiredState(q) /\ Pieces(p.mounts) = Pieces(q.mounts)
    BY DEF SpecDiffers
  <2>11. ~MeaningfullyChanged(q, e)
    <3>1. Lists(p) /\ Lists(q) /\ Plain(p) /\ Plain(q)
      BY <2>2, <2>3, <2>5, <2>7, <2>9, WhatLoadsIsListed DEF SpecsArePlain
    <3>2. /\ \A k \in Option : Len(Merged(p, f)[k]) > 1 => Listed(Merged(p, f)[k])
          /\ \A k \in Option : Len(Merged(q, e)[k]) > 1 => Listed(Merged(q, e)[k])
      BY <2>3, <2>5, <2>7, WhatLoadsIsListed
    <3>3. StripRestartNeutralOptions(RenderedUnit(p, f)) = StripRestartNeutralOptions(RenderedUnit(q, e))
      BY <2>2, <2>7, <2>9, <2>10, <3>1, <3>2, SameWordsSameUnit
    <3> QED
      BY <2>2, <2>8, <3>3 DEF MeaningfullyChanged
  <2>12. PICK n \in References(q) : n \in ChangedSecrets(stream)
    BY <2>2, <2>6, <2>11 DEF NeedsRestart
  <2>13. n \in SecretNames(stream.specs)
    BY <2>2, <2>5, <2>12 DEF SecretReferences, References, Units
  <2>14. store[n] # None /\ store[n].value # Value(stream, n)
    BY <2>4, <2>12 DEF ChangedSecrets, SecretsDiffer
  <2>15. References(p) = References(q)
    <3>1. ContainerSecret \in Option \ RestartNeutral
      BY DEF Option, RestartNeutral, ContainerSecret, Description, StartLimitIntervalSec,
             StartLimitBurst, RestartSec, RestartSteps, RestartMaxDelaySec
    <3> QED
      BY <2>10, <3>1 DEF References
  <2>16. running[c] # None
    BY <2>2 DEF NeedsRestart
  <2>17. n \in DOMAIN running[c].secrets /\ running[c].secrets[n] = store[n].value
    BY <2>2, <2>3, <2>6, <2>10, <2>14, <2>15, <2>16 DEF RunsWhatIsInstalled, Faithful
  <2> QED
    BY <2>4, <2>14, <2>17 DEF SecretsDiffer
<1>2. CASE restarted' \subseteq restarted
  BY <1>2 DEF RestartHasCause
<1>3. Apply \/ restarted' \subseteq restarted
  BY DEF Next, Invoke, newDecryptor, NoDecryptor, LoadSpecs, Refuse, DisplayPlan, Crash, Ends,
         RotateHostKey, UpgradeSystemd, host
<1> QED
  BY <1>1, <1>2, <1>3

\* A container is restarted only for a change of its spec or of a secret it uses, under
\* the same hypothesis, and where specs do not repeat the values of an option.
THEOREM RestartsHaveCause ==
    ASSUME LockedComesWithItsSecrets, SpecsArePlain
    PROVE  Spec => RestartsOnlyForCause
<1>1. IInv /\ Written /\ RunsWhatIsInstalled /\ [Next]_vars => [RestartHasCause]_vars
  BY RestartStep
<1>2. IInv /\ Written /\ RunsWhatIsInstalled /\ [Next]_vars => (Written /\ RunsWhatIsInstalled)'
  BY WrittenStep, RunsStep
<1> QED
  BY Invariance, InitWritten, InitRuns, <1>1, <1>2, PTL DEF Spec, RestartsOnlyForCause, RestartHasCause
=============================================================================
