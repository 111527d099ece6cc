SPECIFICATION MCSpec
CONSTANTS
    None = None
    c1 = c1
    r1 = r1
    r2 = r2
    p1 = p1
    p2 = p2
    p3 = p3
    d1 = d1
    Clients = {c1}
    Requests = {r1, r2}
    Plans = {p1, p2, p3}
    SeedPlan = p1
    Guide <- MCGuide
    Releases <- MCReleases
    Inputs <- MCInputs
    Capacities = {3}
    Estimates = {5}
    MaxPlans = 2
    MaxLedger <- MCMaxLedger
    Asked <- MCAsked
    Increment = 3
    Drafts = {d1}
    Workers = {r1, r2}
    Editors = {r1, r2}
    Answers <- MCAnswers
    Edits <- MCEdits
    MaxDrafts = 1
CONSTRAINT Scope
CHECK_DEADLOCK FALSE
SYMMETRY Alike
INVARIANTS
    TypeOK
    PlansWithinLimits
    
    ReplanIsStable
PROPERTIES
    
    
    PreviewIsSound
