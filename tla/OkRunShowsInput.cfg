SPECIFICATION Spec
CONSTANTS
    a = a
    b = b
    x = x
    y = y
    None = None
    Torn = Torn
    Name = {a, b}
    Value = {x, y}
    Wants <- MCWants
    MaxVersion = 3
    FaultKinds = {"crash"}
    MaxFaults = 1
INVARIANTS
    OkRunShowsInput
