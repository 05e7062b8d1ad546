SPECIFICATION Spec
CONSTANTS
    h1 = h1
    h2 = h2
    copy1 = copy1
    copy2 = copy2
    Dlls = {copy1}
    Remote = {h1}
    MaxFrames = 0
    MaxStarts = 0
    Systems = {32, 64}
    Callers = {32, 64}
    Ui = "ui"
    Nobody = "nobody"
    TheViewer = "viewer"
INVARIANT BitnessIsRight
CHECK_DEADLOCK FALSE
