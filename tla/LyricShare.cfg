SPECIFICATION Spec
CONSTANTS
    h1 = h1
    h2 = h2
    copy1 = copy1
    copy2 = copy2
    Dlls = {copy1}
    Remote = {h1}
    MaxFrames = 2
    MaxStarts = 2
    Systems = {64}
    Callers = {64}
    Ui = "ui"
    Nobody = "nobody"
    TheViewer = "viewer"
PROPERTIES
    HelperAnswers
    LatestFrameShown
\* Helpers, viewer and process may all have ended.
CHECK_DEADLOCK FALSE
