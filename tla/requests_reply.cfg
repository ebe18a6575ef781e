CONSTANTS
    RequestIds = {r1}
    Staff = {clerk, agent}
    Jobs = {job}
    Queues = {front, back}
    NoQueue = NoQueue
    PauseLists <- OnlyDefault
    EscalationOf <- Escalating
    OwnerKinds = {"user", "system"}
    SlaFlags = {"breached"}
    MaxCalls = 3
    MaxMishaps = 0
SPECIFICATION Spec
INVARIANT ClockRunsInProgress
CHECK_DEADLOCK FALSE
