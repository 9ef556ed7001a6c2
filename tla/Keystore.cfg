SPECIFICATION Spec
SYMMETRY PasswordSymmetry
CONSTANTS
    NumAccounts = 2
    Passwords = {p1, p2}
    NoPassword = NoPassword
    s1 = s1
    s2 = s2
    Secrets = {s1, s2}
    NoSecret = NoSecret
    KindOf <- MCKinds
    Blank = Blank
    MaxSaves = 3
    AteccFaults = TRUE
INVARIANTS
    PasswordsUnique
    WalletsRecoverable
    SlotsAgree
    PublicKeysMatch
    ParamMatches
PROPERTY
    ImplementsStore
