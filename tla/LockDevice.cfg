CONSTANTS
    MaxErrors = 4
    LockTime <- McLockTime
    JobQueue = 2
    MaxCrashes = 2
SPECIFICATION Spec
INVARIANTS LastAttempt WaitServed WipeResumes
PROPERTIES CountDurable LockEnds FinalWipes
