CONSTANTS
    Messages = {m1, m2, m3}
    C2Contents = {update}
    EmailContents = {letter}
    NoContent = NoContent
    Contacts = {resident}
    ContactOf <- OneResident
    Handlers = {h1, h2}
    Passes = {scheduled}
    MaxAttempts = 2
    MaxRetries = 0
    MaxMishaps = 1
SYMMETRY Interchangeable
SPECIFICATION Spec
INVARIANTS TypeOK DuplicatesAreAccounted TwinsAreBounded RefusalIsVisible
CHECK_DEADLOCK FALSE
