SPECIFICATION Spec
CONSTANTS
    a = a
    b = b
    f1 = f1
    f2 = f2
    f3 = f3
    d1 = d1
    d2 = d2
    s1 = s1
    s2 = s2
    s3 = s3
    g1 = g1
    g2 = g2
    p1 = p1
    p2 = p2
    p3 = p3
    p4 = p4
    p5 = p5
    Threads = {a, b}
    Funcs = {f1}
    Detours = {d1, d2}
    Trampolines = {s1, s2}
    Pages = {g1}
    PageOf <- PageOfOne
    Pointers = {p1}
    TargetOf <- TargetsOne
    Stubs = {}
    TooSmall = {}
    Disciplined = TRUE
    MaxOperations = 2
    NoThread = NoThread
    Null = Null
    Original = Original
    Unmapped = Unmapped
PROPERTIES
    RollbackReported
