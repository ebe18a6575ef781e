SPECIFICATION Spec
CONSTANTS
    c1 = c1
    c2 = c2
    c3 = c3
    s1 = s1
    s2 = s2
    q1 = q1
    q2 = q2
    ann = ann
    bob = bob
    pump = pump
    p1 = p1
    k1 = k1
    k2 = k2
    Categories = {c1, c2, c3}
    Services = {s1, s2}
    Requests = {r1, r2, r3}
    Handlers = {h1, h2}
    Filers = {f1, f2}
    None = None
    Names = {"roads", "snow"}
    NoName = NoName
    Seasons <- MCSeasons
    Defaults <- MCDefaults
    FieldKeys = {"form.depth", "form.size"}
    NoKey = ""
    Blank = " "
    Dates <- MCDates
    Bodies = {"brief", "full"}
    MaxPromoted = 2
    Loads <- MCLoads
    NumberOf <- MCNumberOf
    DayLength = 4
    Week = 2
    MaxDays = 6
    Places <- MCPlaces
    Rules <- MCRules
    Queues = {q1, q2}
    Users <- MCUsers
    Systems = {pump}
    Policies = {p1}
    PolicyForms <- MCPolicyForms
    Calendars = {k1, k2}
    Hours <- MCHours
    CursorModulus = 3
    MaxClosed = 1
SYMMETRY Symmetry
INVARIANTS TypeOK CatalogueHangsTogether RequestsFollowTheRules RotationIsFair HoursAreFresh
CHECK_DEADLOCK FALSE
