SPECIFICATION Spec
CONSTANTS
    UiQueue = 5
    MaxRequests = 3
INVARIANTS SignedIsSeen AnsweredOnce ResponseAlive
PROPERTY NeverStuck
