SPECIFICATION PipelineSpec
CONSTANTS
    f1 = f1
    f2 = f2
    n1 = n1
    es = es
    r1 = r1
    r2 = r2
    Unasked = Unasked
    Files = {f1, f2}
    Base <- SameName
    Locales = {}
    Forms = {"whole"}
    Runs = {r1}
    Requests <- OneKind
    MaxTime = 0
    MaxMishaps = 0
    MaxEdits = 0
    MaxRestores = 1
    MaxInAll = 2
PROPERTIES RestoreExact
CHECK_DEADLOCK FALSE
