SPECIFICATION Spec
CONSTANTS
    ann = ann
    bob = bob
    home = home
    Subs = {ann, bob}
    Emails = {home}
    EmailOf <- MCEmailOf
    None = None
    MaxContacts = 3
    MaxRequests = 1
    MaxMerges = 2
    Sessions = {s1}
    Desks = {d1, d2}
    Loads <- SomeLoads
SYMMETRY Symmetry
INVARIANTS TypeOK SeesOnlyTheirOwn GuestsStayApart ProvisionedOnce EveryMergeCanBeUndone
CHECK_DEADLOCK FALSE
