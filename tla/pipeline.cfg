SPECIFICATION PipelineSpec
CONSTANTS
    f1 = f1
    f2 = f2
    n1 = n1
    es = es
    r1 = r1
    r2 = r2
    Unasked = Unasked
    Files = {f1}
    Base <- OneName
    Locales = {es}
    Forms = {"whole", "broken"}
    Runs = {r1, r2}
    Requests <- EachKind
    MaxTime = 1
    MaxMishaps = 1
    MaxEdits = 1
    MaxRestores = 1
    MaxInAll = 2
INVARIANTS PipelineInv TextRecoverable SourceKnowsCode
PROPERTIES PersonKept
SYMMETRY RunSymmetry
CHECK_DEADLOCK FALSE
