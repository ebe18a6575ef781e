CONSTANTS
    RequestIds = {r1}
    Staff = {clerk, agent}
    Jobs = {job}
    Queues = {}
    NoQueue = NoQueue
    PauseLists <- Editable
    EscalationOf <- NeverEscalating
    OwnerKinds = {"user"}
    SlaFlags = {}
    MaxCalls = 3
    MaxMishaps = 1
SYMMETRY Handlers
SPECIFICATION VersionedSpec
INVARIANTS TypeOK ReadIsCurrent ClockFollowsStatus StampsFollowStatus
PROPERTIES ActsAtomically
CHECK_DEADLOCK FALSE
