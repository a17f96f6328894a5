SPECIFICATION FairSpec
CONSTANTS
    c1 = c1
    s1 = s1
    f1 = f1
    x = x
    y = y
    None = None
    Container = {c1}
    Volume = {}
    Network = {}
    Build = {}
    Image = {}
    Secret = {s1}
    File = {f1}
    Dir = {}
    Value = {x, y}
    Inputs <- MCInputs
    FaultKinds = {"exit", "reboot"}
    MaxFaults = 1
INVARIANTS
    SameSpecsSettle
PROPERTIES
    WantedByBothComesUp
