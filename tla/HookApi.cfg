SPECIFICATION ApiFairSpec
CONSTANTS
    a = a
    b = b
    f1 = f1
    f2 = f2
    d1 = d1
    d2 = d2
    s1 = s1
    s2 = s2
    g1 = g1
    Threads = {a, b}
    Funcs = {f1, f2}
    Detours = {d1, d2}
    Trampolines = {s1, s2}
    Pages = {g1}
    PageOf <- OnePage
    Pointers = {a, b}
    TargetOf <- NoTargets
    Stubs = {}
    TooSmall = {}
    Disciplined = TRUE
    MaxOperations = 1
    Hooks <- TwoHooks
    Low <- BelowFour
    HangAllThreads = {TRUE, FALSE}
    NoThread = NoThread
    Null = Null
    Original = Original
    Unmapped = Unmapped
INVARIANTS
    NotInEffectUnlessTold
    InEffectIsRemovable
PROPERTIES
    CallsReturn
    BegunTransactionsEnd
