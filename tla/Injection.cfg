SPECIFICATION Spec
CONSTANTS
    h1 = h1
    h2 = h2
    copy1 = copy1
    copy2 = copy2
    Dlls = {copy1, copy2}
    Remote = {h1, h2}
    MaxFrames = 1
    MaxStarts = 1
    Systems = {64}
    Callers = {64}
    Ui = "ui"
    Nobody = "nobody"
    TheViewer = "viewer"
INVARIANTS
    ReportsTruth
    HookedOnce
    SafeInjectionIsSafe
PROPERTY HookedStaysLoaded
SYMMETRY Symmetry
\* Helpers, viewer and process may all have ended.
CHECK_DEADLOCK FALSE
