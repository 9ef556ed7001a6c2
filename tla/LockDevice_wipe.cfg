CONSTANTS
    MaxErrors = 3
    LockTime <- McLockTime
    JobQueue = 2
    MaxCrashes = 2
SPECIFICATION Spec
INVARIANT WipeFinishes
