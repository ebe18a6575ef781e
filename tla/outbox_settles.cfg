CONSTANTS
    Messages = {m1}
    C2Contents = {update}
    EmailContents = {letter}
    NoContent = NoContent
    Contacts = {resident}
    ContactOf <- OneResident
    Handlers = {h1}
    Passes = {scheduled, manual}
    MaxAttempts = 2
    MaxRetries = 1
    MaxMishaps = 1
SPECIFICATION Spec
INVARIANTS AttemptsRemain
PROPERTIES PendingIsSettled
CHECK_DEADLOCK FALSE
