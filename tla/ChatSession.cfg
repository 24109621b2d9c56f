SPECIFICATION Spec
CONSTANT
    MaxPrompts = 2
INVARIANTS
    FailedNewReleases
    TimelineOpenWhileWritten
    TurnsSavedWhileConnected
PROPERTIES
    AllReleased
    AnswerReachesUser
CHECK_DEADLOCK FALSE
