CONSTANTS
    Deliveries = {d1, d2, d3}
    Systems = {permits, works}
    Nobody = Nobody
    Publishers = {handler, clerk}
    Admins = {admin}
    Passes = {p1, p2}
    MaxAttempts = 2
    MaxEvents = 2
    MaxEdits = 1
    MaxMishaps = 1
    Loads <- SomeLoads
    d1 = d1
    d2 = d2
    permits = permits
    p1 = p1
SPECIFICATION Spec
INVARIANTS TypeOK EventsAreWhole DuplicatesAreBounded
PROPERTY DeliversAtLeastOnce
CHECK_DEADLOCK FALSE
