\* A client and its tenant: limit, block and activation run out in turn.
CONSTANTS
    Limit = 2
    Window = 3
    Block = 2
    Request = {r1, r2}
    TTL = 3
    Slow = 2
    None = None
SPECIFICATION AdmissionSpec
INVARIANTS AdmissionTypeOK AtMostTwice
PROPERTIES PauseReopens AnswerIsRecent ShutOut
CHECK_DEADLOCK FALSE
