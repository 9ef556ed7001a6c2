SPECIFICATION Spec
CONSTANTS
    FwFiles = {f1}
    NftFiles = {n1}
    N = 1
    Races = FALSE
    ReadErrors = FALSE
    FullVolume = FALSE
    NoFile = NoFile
    Absent = Absent
    Erased = Erased
INVARIANT NeverAsserts
