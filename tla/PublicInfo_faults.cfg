SPECIFICATION Spec
CONSTANTS
    NumAccounts = 2
    Secrets = {s1, s2}
    NoSecret = NoSecret
    Slip39Secrets = {s1}
    Garbage = Garbage
    Passphrases = {p1, p2}
    NoPassphrase = NoPassphrase
    MaxVersion = 1
    MaxCreates = 3
    AteccFaults = TRUE
    Blank = Blank
    Torn = Torn
    ZeroHash = ZeroHash
SYMMETRY PassphraseSymmetry
INVARIANTS KeysVerify TempKeysCurrent PassphraseKeysOrNone
