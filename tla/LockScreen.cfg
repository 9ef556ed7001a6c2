SPECIFICATION Spec
CONSTANTS
    TimeOut = 1
    JobQueue = 1
    UiQueue = 1
    Results = {"ok", "generate", "wrong", "failed", "notMatch"}
INVARIANTS FlagsRestored UnlockedLoggedIn
PROPERTIES LockOutsideJobs AutoLock
