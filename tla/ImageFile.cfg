SPECIFICATION Spec
CONSTANTS
    NULL = NULL
    a = a
    b = b
    g1 = g1
    g2 = g2
    Pristine <- Files
    Names = {b}
    Ordinals = {9}
    StrLen <- Lengths
    Guids = {g1, g2}
    Sizes = {12}
    MaxSections = 3
    MaxByways = 1
INVARIANTS
    WrittenReopens
    OriginalsKept
    PristineAgain
    TailFollows
    SectionsApart
    PayloadsKept
\* A faulted tool does nothing more.
CHECK_DEADLOCK FALSE
