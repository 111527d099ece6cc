CONSTANTS
    None = None
    s1 = s1
    Requests = {r1, r2}
    Nonces = {n1, n2}
    Subjects = {s1, s2}
    Founder = founder
    NewUsers = {u1}
    Events <- MCEvents
    ClaimFirst = TRUE
    MaxSessions = 3
    MaxClock = 1
    Missing = Missing
    Gone = Gone
    Transactions = {r1, r2}
    Captures = {k1}
    Topics = {t1, t2}
    Keys = {x1, x2}
    Texts = {a, b}
    MaxCards = 3
    MaxSuggested = 1
    MaxChanges = 2
    Absent = {"drafts", "sources", "items", "acceptances", "auth_sessions"}
    Tasks = {"q1", "q2", "q3", "w1", "w2"}
    Imports = {"w1", "w2"}
    Credential <- MCCredential
    Account <- MCAccount
    Clients = {h1, h2, h3}
    WriteLimit = 2
    CredentialLimit = 1
    SlotLimit = 2
    AccountLimit = 1
    Period = 2
    CallLimit = 2
    MaxKeys = 2
    MaxTime = 3
    Absentee = Absentee
SPECIFICATION MCSpec
INVARIANTS
    TypeOK
    TokensAreSingle
    
    DataIsWhole
    LibraryIsWhole
    
    DoorsHold
PROPERTIES
    StaleRevocationIgnored
    HistorySurvives
SYMMETRY Symmetry
CONSTRAINT Scene
CHECK_DEADLOCK FALSE
