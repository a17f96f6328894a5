SPECIFICATION Spec
CONSTANTS
    k1 = k1
    k2 = k2
    None = None
    NotString = NotString
    Key = {k1, k2}
    OtherOption <- MCOtherOption
    ValueOrder <- MCValueOrder
    Streams <- MCStreams
    InitialStores <- MCInitialStores
INVARIANTS
    IInv
    SecretsSurviveRotation
    RunningShowsSpec
    SecondApplyPlansNothing
PROPERTIES
    RestartsOnlyForCause
    LockedSpecsStay
    VolumeChangesNeedPermit
