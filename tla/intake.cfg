SPECIFICATION Spec
CONSTANTS
    Callers = {c1, c2}
    Uploaders = {u1, u2}
    Staff = {s}
    ccadm = ccadm
    Keys = {k}
    NoKey = NoKey
    Tokens = {t}
    GuestForms = {TRUE, FALSE}
    Reports = {r0, r1, r2}
    Imported = {r0}
    Refs = {a, b}
    OldRef = OldRef
    Files = {f1, f2}
    Contents = {"clean", "infected"}
    MaxFiles = 1
    Loads <- MCLoads
    MaxSends = 2
    MaxClock = 2
    MaxEnds = 1
    Writers <- MCWriters
    Processes = {"server", "ccadm"}
    ProcessOf <- MCProcessOf
    Entries <- MCEntries
    Genesis = Genesis
    Nobody = Nobody
SYMMETRY Symmetry
INVARIANTS TypeOK RetriesAreSafe ChainVerifies FilesStayBounded RowsTellTheirFile
CHECK_DEADLOCK FALSE
