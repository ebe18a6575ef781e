CONSTANTS
    RequestIds = {r1}
    Staff = {clerk, agent}
    Jobs = {job}
    Queues = {front, back}
    NoQueue = NoQueue
    PauseLists <- OnlyDefault
    EscalationOf <- Escalating
    OwnerKinds = {"user", "system"}
    SlaFlags = {"breached"}
    MaxCalls = 2
    MaxMishaps = 1
SPECIFICATION Spec
INVARIANT StampsKeepUp
PROPERTIES OwnerStaysSingle ResolvedIsClosed BreachIsFlagged
CHECK_DEADLOCK FALSE
