SPECIFICATION Spec
CONSTANTS
    t1 = t1
    Functions <- Every
    Threads = {t1}
    CodeSize = 30
    CbJump = 5
    AlignEntries = 8
    TargetRange = 8
    TrampolineRange = 32
INVARIANTS
    KeepsItsPlace
    JumpBackFits
CHECK_DEADLOCK FALSE
