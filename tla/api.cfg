SPECIFICATION ServersSpec
CONSTANTS
    q1 = q1
    q2 = q2
    q3 = q3
    k1 = k1
    k2 = k2
    gemini = gemini
    openai = openai
    pa = pa
    pb = pb
    ann = ann
    bob = bob
    old = old
    i1 = i1
    org = org
    r1 = r1
    Requests = {q1, q2, q3}
    Kinds <- AllKinds
    Keys = {k1, k2}
    Providers = {gemini, openai}
    NoRow = NoRow
    NoText = NoText
    NoKey = NoKey
    Scanned = Scanned
    MaxFails = 1
    People = {ann, bob, old}
    Legacy = {old}
    Browsers = {1, 2}
    Installs = {i1, org}
    LoginOf <- OnLogin
    Repos = {r1}
    MaxTeams = 3
    Nobody = Nobody
    Users = {q1, q2, q3}
    Jobs <- AllJobs
    CatalogKeys = {k1, k2}
    Projects = {pa, pb}
    None = None
    Start = Start
INVARIANTS ApiInv AccountsInv StudioInv OnlySelfLock
PROPERTIES RowsMerged TeamsKept TextsKept
SYMMETRY Symmetry
CHECK_DEADLOCK FALSE
