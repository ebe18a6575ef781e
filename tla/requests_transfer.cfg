CONSTANTS
    RequestIds = {r1}
    Staff = {clerk, agent}
    Jobs = {job}
    Queues = {front, back}
    NoQueue = NoQueue
    PauseLists <- OnlyDefault
    EscalationOf <- Escalating
    OwnerKinds = {"user", "system"}
    SlaFlags = {"breached"}
    MaxCalls = 2
    MaxMishaps = 0
SPECIFICATION Spec
PROPERTY MovesAreLegal
CHECK_DEADLOCK FALSE
