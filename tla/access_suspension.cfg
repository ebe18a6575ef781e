CONSTANTS
    chief = chief
    colleague = colleague
    resident = resident
    chief_mail = chief_mail
    desk_mail = desk_mail
    People = {chief, colleague, resident}
    Nobody = Nobody
    Emails = {chief_mail, desk_mail}
    EmailOf <- Addresses
    Unverified = {resident}
    Accounts = {a1, a2, a3}
    Sessions = {s1, s2}
    Flows = {f1, f2}
    Desks = {d1, d2}
    KeyIds = {k1, k2}
    Issuer = Issuer
    Client = Client
    Others = {stranger}
    Instants = {0, 1, 2, 5}
    Now = 3
    ClockSkew = 1
    NoNonce = NoNonce
    NoCall = NoCall
    ApiTokens = {t1}
    Grants <- AnyOrRead
    RootSubs = {chief}
    RootEmails = {desk_mail}
    Loads <- OneEdit
SYMMETRY Interchangeable
SPECIFICATION Spec
INVARIANT SuspensionHolds
CHECK_DEADLOCK FALSE
