SPECIFICATION Spec
CONSTANTS
    NumAccounts = 3
    Secrets = {s1, s2, s3}
    NoSecret = NoSecret
    Slip39Secrets = {s1, s2, s3}
    Garbage = Garbage
    Passphrases = {p1}
    NoPassphrase = NoPassphrase
    MaxVersion = 1
    MaxCreates = 3
    AteccFaults = FALSE
    Blank = Blank
    Torn = Torn
    ZeroHash = ZeroHash
SYMMETRY DataSymmetry
INVARIANTS RamKeysMatch UnlockedHasKeys FlashHoldsBase InfoMatches
