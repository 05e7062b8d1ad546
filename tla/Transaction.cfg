SPECIFICATION Spec
CONSTANTS
    a = a
    b = b
    f1 = f1
    f2 = f2
    f3 = f3
    d1 = d1
    d2 = d2
    s1 = s1
    s2 = s2
    s3 = s3
    g1 = g1
    g2 = g2
    p1 = p1
    p2 = p2
    p3 = p3
    p4 = p4
    p5 = p5
    Threads = {a, b}
    Funcs = {f1, f2, f3}
    Detours = {d1, d2}
    Trampolines = {s1, s2, s3}
    Pages = {g1, g2}
    PageOf <- PageOfAll
    Pointers = {p1, p2, p3, p4, p5}
    TargetOf <- TargetsAll
    Stubs <- StubsOfF2
    TooSmall = {f3}
    Disciplined = TRUE
    MaxOperations = 2
    NoThread = NoThread
    Null = Null
    Original = Original
    Unmapped = Unmapped
INVARIANTS
    TypeOK
    WritesNeverFault
    NothingLeftWritable
    NoDanglingJump
    CallReachesOriginal
    NoTrampolineLost
    PointersMatchHooks
    NobodyLeftSuspended
PROPERTIES
    ResumedOnSettledCode
    AllOrNothing
SYMMETRY Symmetry
VIEW WithoutResults
