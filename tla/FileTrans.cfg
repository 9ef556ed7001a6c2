SPECIFICATION Spec
CONSTANTS
    FwFiles = {f1, f2}
    NftFiles = {n1, n2}
    N = 2
    Races = TRUE
    ReadErrors = TRUE
    FullVolume = TRUE
    NoFile = NoFile
    Absent = Absent
    Erased = Erased
INVARIANTS PictureShownIsWhole RebootWithWholeFile HashedIsWritten
    AssertOnlyAfterPicture
PROPERTY FileModeEnds
