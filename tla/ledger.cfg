SPECIFICATION QueueSpec
CONSTANTS
    r1 = r1
    main = main
    w1 = w1
    w2 = w2
    none = none
    e1 = e1
    NoKey = NoKey
    Repos = {r1}
    Bases = {main}
    DefaultBranch = main
    NoBranch = none
    Edits = {}
    MaxJobs = 2
    MaxVersion = 1
    Workers = {w1}
    MaxCommits = 3
    MaxFaults = 1
    MaxCrashes = 1
    Sources = {"webhook_push"}
PROPERTIES ImplementsLedger JobsEnd
CHECK_DEADLOCK FALSE
