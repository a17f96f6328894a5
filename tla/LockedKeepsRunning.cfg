SPECIFICATION Spec
CONSTANTS
    c1 = c1
    c2 = c2
    v1 = v1
    n1 = n1
    b1 = b1
    i1 = i1
    i2 = i2
    s1 = s1
    s2 = s2
    f1 = f1
    f2 = f2
    d1 = d1
    x = x
    y = y
    None = None
    Container = {c1, c2}
    Volume = {v1}
    Network = {n1}
    Build = {b1}
    Image = {i1, i2}
    Secret = {s1, s2}
    File = {f1, f2}
    Dir = {d1}
    Value = {x, y}
    Inputs <- LockedLeft
    FaultKinds = {}
    MaxFaults = 0
PROPERTIES
    LockedKeepsRunning
