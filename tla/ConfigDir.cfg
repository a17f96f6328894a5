SPECIFICATION Spec
CONSTANTS
    a = a
    b = b
    x = x
    y = y
    None = None
    Torn = Torn
    Name = {a, b}
    Value = {x, y}
    Wants <- MCWants
    MaxVersion = 4
    FaultKinds = {"fail", "crash"}
    MaxFaults = 2
INVARIANTS
    IInv
    UnchangedIsExact
    CleanRunShowsInput
PROPERTIES
    ImplementsDirectory
    PublishedNeverRewritten
    SharedNamesNeverVanish
